---------------------------- MODULE Spec2Model ----------------------------
(***************************************************************************)
(* Linear streaming sketches of savelyevno/l0-sampler: the 1-sparse        *)
(* recoverer (src/plain/sparse_recovery/OneSparseRecoverer.py), the        *)
(* s-sparse recoverer (src/plain_v2/SparseRecoverer.py), the seed-derived  *)
(* L0-sampler (src/fast/L0Sampler.py) and the level-list L0-sampler        *)
(* (src/L0Sampler.py over src/sparse_recovery/), with the hash factory     *)
(* (src/tools/hash_function.py) and the prime oracle                       *)
(* (src/tools/primality_test.py) they are built on.                        *)
(*                                                                         *)
(* The variants are separate Python modules.  A behaviour runs one of      *)
(* them: `mode' is fixed by Init and every action is guarded by it.  Two   *)
(* objects, "A" and "B", exist in every mode, so that add and subtract     *)
(* have an argument.  `vec' is a ghost: the integer vector each sketch     *)
(* stands for (updated linearly by update, add and subtract).              *)
(***************************************************************************)
EXTENDS Integers, Sequences, FiniteSets, TLC

VARIABLES
    mode,     \* which variant this behaviour runs
    sk,       \* sk[s]: the object named s (a sketch, a hash, an oracle call)
    vec,      \* ghost: vec[s][i] is coordinate i of the vector sketched by s
    gen,      \* the generator's output function, fixed for a behaviour
    rng,      \* state of Python's process-wide `random': <<seed, draws made>>
    op,       \* the last call: [name, on, i]: the method, its receiver, its index
    res,      \* what the last call returned
    err,      \* the exception the last call raised, "" if none
    steps     \* number of calls made so far

vars == <<mode, sk, vec, gen, rng, op, res, err, steps>>

---------------------------------------------------------------------------
(* Bounds of the model. *)

\* Calls per behaviour of the recoverers, and of the samplers.
MaxOps == 4
MaxSamplerOps == 3
\* Update values are Delta = MaxDelta and Delta = -MaxDelta.
MaxDelta == 1
\* Witnesses z of independently drawn recoverers range over 1..MaxZ and p-1.
MaxZ == 2
\* Composite candidates, beyond the first, that the prime oracle may accept.
PrimeSlack == 0
\* The generator's outputs are 0..GenRange-1, read from a table of GenPeriod
\* entries.
GenRange == 2
GenPeriod == 3
\* Seeds given to random.seed are 0..MaxSeed.
MaxSeed == 1
\* Hash functions are evaluated at x in 0..MaxX.
MaxX == 6
\* The prime oracle is asked for the primes after 0..MaxPrimeArg.
MaxPrimeArg == 64

Names == {"A", "B"}
Deltas == {-MaxDelta, MaxDelta}

---------------------------------------------------------------------------
(* Python integer arithmetic. *)

\* a % b of Python: the result has the sign of b.
PyMod(a, b) == IF b > 0 THEN a % b ELSE -((-a) % (-b))

\* a // b of Python: floor division.
PyFloorDiv(a, b) == IF b > 0 THEN a \div b ELSE (-a) \div (-b)

\* pow(b, e, m) of Python for e >= 0, m > 0.
RECURSIVE ModPow(_, _, _)
ModPow(b, e, m) ==
    IF e = 0 THEN 1 % m
    ELSE LET h == ModPow(b, e \div 2, m)
             sq == (h * h) % m
         IN  IF e % 2 = 0 THEN sq ELSE (sq * (b % m)) % m

\* a >> k of Python for a >= 0.
RECURSIVE ShiftRight(_, _)
ShiftRight(a, k) == IF k = 0 THEN a ELSE ShiftRight(a \div 2, k - 1)

\* a ^ b of Python (bitwise exclusive or) for a, b >= 0.
RECURSIVE Xor(_, _)
Xor(a, b) ==
    IF a = 0 THEN b
    ELSE IF b = 0 THEN a
    ELSE 2 * Xor(a \div 2, b \div 2) + (IF (a % 2) = (b % 2) THEN 0 ELSE 1)

\* Return values: None, an int, a pair (idx, val), or a dict.
None == [kind |-> "None"]
PyInt(v) == [kind |-> "int", val |-> v]
Pair(i, v) == [kind |-> "pair", idx |-> i, val |-> v]
Dict(m) == [kind |-> "dict", map |-> m]

\* The ghost vector after a[i] += Delta.
VecUpdate(a, i, Delta) == [a EXCEPT ![i] = @ + Delta]
VecAdd(a, b) == [i \in DOMAIN a |-> a[i] + b[i]]
VecSub(a, b) == [i \in DOMAIN a |-> a[i] - b[i]]
Support(a) == {i \in DOMAIN a : a[i] # 0}

---------------------------------------------------------------------------
(* tools/primality_test.py: the Miller-Rabin oracle.  Its witnesses come   *)
(* from numpy's generator, which nothing seeds: each is any a in 2..n-1.   *)

\* n - 1 = d * 2^r with d odd: the loop of lines 36-40.
RECURSIVE OddPart(_)
OddPart(d) == IF d % 2 = 0 THEN OddPart(d \div 2) ELSE d
RECURSIVE TwoExp(_)
TwoExp(d) == IF d % 2 = 0 THEN 1 + TwoExp(d \div 2) ELSE 0

\* The squaring loop of lines 50-60 from x with j squarings done: "composite"
\* on x = 1, "stop" on x = n - 1, "composite" when j reaches r - 1 unstopped.
RECURSIVE SquareLoop(_, _, _, _)
SquareLoop(n, r, x, j) ==
    IF j < r - 1
    THEN LET x2 == ModPow(x, 2, n)
         IN  IF x2 = 1 THEN "composite"
             ELSE IF x2 = n - 1 THEN "stop"
             ELSE SquareLoop(n, r, x2, j + 1)
    ELSE "composite"

\* Faulty variant of the round: the squaring loop is left out.
WitnessPasses_NoSquaring(n, a) ==
    LET d == OddPart(n - 1)
        x == ModPow(a, d, n)
    IN  x = 1 \/ x = n - 1

\* One round of the for loop (lines 42-63) with witness a: TRUE when the round
\* does not return False.
WitnessPasses(n, a) ==
    LET d == OddPart(n - 1)
        r == TwoExp(n - 1)
        x == ModPow(a, d, n)
    IN  (x = 1 \/ x = n - 1) \/ SquareLoop(n, r, x, 0) = "stop"

\* is_prime(n) can return True / can return False, over the witnesses drawn.
IsPrimeMayReturnTrue(n) ==
    \/ n = 2 \/ n = 3
    \/ /\ n # 1 /\ n % 2 # 0
       /\ \E a \in 2..(n - 1) : WitnessPasses(n, a)
IsPrimeMayReturnFalse(n) ==
    /\ n # 2 /\ n # 3
    /\ \/ n = 1 \/ n % 2 = 0
       \/ \E a \in 2..(n - 1) : ~WitnessPasses(n, a)

\* The values the loop of get_next_prime (lines 88-89) can stop at from p.
RECURSIVE NextPrimeFrom(_)
NextPrimeFrom(p) ==
    (IF IsPrimeMayReturnTrue(p) THEN {p} ELSE {})
      \cup (IF IsPrimeMayReturnFalse(p) THEN NextPrimeFrom(p + 2) ELSE {})

\* Faulty variant of the first candidate: the search starts at n itself.
FirstCandidate_FromN(n) == IF n % 2 = 0 THEN n + 1 ELSE n

\* get_next_prime(n): every value it can return (lines 84-92).
FirstCandidate(n) == IF (n + 1) % 2 = 0 THEN n + 2 ELSE n + 1
get_next_prime(n) == NextPrimeFrom(FirstCandidate(n))

\* The outcomes of get_next_prime(n) a behaviour draws from: the prime, and
\* the composites within PrimeSlack candidates of the first.
PrimeChoices(n) ==
    {p \in get_next_prime(n) :
        \/ ~IsPrimeMayReturnFalse(p)
        \/ p <= FirstCandidate(n) + 2 * PrimeSlack}
\* The outcome no witness can reject.
NextPrime(n) == CHOOSE p \in get_next_prime(n) : ~IsPrimeMayReturnFalse(p)

---------------------------------------------------------------------------
(* Python's `random'.  seed(s) sets the state to <<s, 0>>; a draw reads    *)
(* the output at the state and advances it.  The output function is the    *)
(* generator's: unknown, the same for the whole behaviour (`gen').         *)

GenFunctions == [0..(GenPeriod - 1) -> 0..(GenRange - 1)]
RandOut(g, st) == g[(st[1] + st[2]) % GenPeriod]
\* random.randint(lo, hi): lo <= result <= hi.
randint(g, st, lo, hi) == lo + (RandOut(g, st) % (hi - lo + 1))
Advance(st, k) == <<st[1], st[2] + k>>
Seeded(s) == <<s, 0>>

---------------------------------------------------------------------------
(* The oracle step by step.  A is a call get_next_prime(arg) that finds    *)
(* the cache empty; B is a later call with the same argument.  A call is   *)
(* at "call" before is_prime(p) is entered, at "round" before round i of   *)
(* its for loop, and at "done" once get_next_prime has returned ret.       *)
(* `tested' counts the witnesses the running is_prime has drawn, all of    *)
(* them inconclusive.                                                      *)

PrimeFrame(n) ==
    [arg |-> n, p |-> FirstCandidate(n), pc |-> "call",
     r |-> 0, d |-> 0, i |-> 0, tested |-> 0, ret |-> 0]

InitPrime ==
    /\ mode = "prime"
    /\ \E n \in 0..MaxPrimeArg :
         /\ sk = [s \in Names |-> PrimeFrame(n)]
         /\ vec = [s \in Names |-> [i \in 0..(n - 1) |-> 0]]
    /\ gen = [k \in 0..(GenPeriod - 1) |-> 0]
    /\ rng = Seeded(0)
    /\ op = [name |-> "init", on |-> "A", i |-> 0]
    /\ res = None
    /\ err = ""
    /\ steps = 0

\* is_prime(p) up to its for loop (lines 31-40): True for 2 and 3, False for 1
\* and even p, and then get_next_prime moves to p + 2 (line 89).
IsPrimeEnter ==
    /\ mode = "prime" /\ sk["A"].pc = "call"
    /\ LET f == sk["A"]
       IN  IF f.p = 2 \/ f.p = 3
           THEN /\ sk' = [sk EXCEPT !["A"] = [f EXCEPT !.pc = "done", !.ret = f.p]]
                /\ res' = PyInt(f.p)
                /\ steps' = steps + 1
                /\ op' = [name |-> "get_next_prime", on |-> "A", i |-> f.arg]
           ELSE IF f.p = 1 \/ f.p % 2 = 0
           THEN /\ sk' = [sk EXCEPT !["A"] = [f EXCEPT !.p = f.p + 2]]
                /\ UNCHANGED <<res, steps, op>>
           ELSE /\ sk' = [sk EXCEPT !["A"] =
                            [f EXCEPT !.pc = "round", !.i = 0, !.tested = 0,
                                      !.r = TwoExp(f.p - 1),
                                      !.d = OddPart(f.p - 1)]]
                /\ UNCHANGED <<res, steps, op>>
    /\ UNCHANGED <<mode, vec, gen, rng, err>>

\* One round of the for loop (lines 42-63) with the witness a numpy draws:
\* inconclusive, or is_prime returns False and get_next_prime moves to p + 2.
IsPrimeRound ==
    /\ mode = "prime" /\ sk["A"].pc = "round" /\ sk["A"].i < sk["A"].r
    /\ \E a \in 2..(sk["A"].p - 1) :
         sk' = [sk EXCEPT !["A"] =
                  IF WitnessPasses(@.p, a)
                  THEN [@ EXCEPT !.i = @ + 1, !.tested = @ + 1]
                  ELSE [@ EXCEPT !.pc = "call", !.p = @ + 2]]
    /\ UNCHANGED <<mode, vec, gen, rng, op, res, err, steps>>

\* The for loop is exhausted: is_prime returns True (line 65) and
\* get_next_prime stores and returns p (lines 91-92).
IsPrimeReturnTrue ==
    /\ mode = "prime" /\ sk["A"].pc = "round" /\ sk["A"].i = sk["A"].r
    /\ sk' = [sk EXCEPT !["A"] = [@ EXCEPT !.pc = "done", !.ret = sk["A"].p]]
    /\ res' = PyInt(sk["A"].p)
    /\ op' = [name |-> "get_next_prime", on |-> "A", i |-> sk["A"].arg]
    /\ steps' = steps + 1
    /\ UNCHANGED <<mode, vec, gen, rng, err>>

\* The later call finds its argument in the cache (lines 81-82).
CachedCall ==
    /\ mode = "prime" /\ sk["A"].pc = "done" /\ sk["B"].pc = "call"
    /\ sk' = [sk EXCEPT !["B"] = [@ EXCEPT !.pc = "done", !.ret = sk["A"].ret]]
    /\ res' = PyInt(sk["A"].ret)
    /\ op' = [name |-> "get_next_prime", on |-> "B", i |-> sk["B"].arg]
    /\ steps' = steps + 1
    /\ UNCHANGED <<mode, vec, gen, rng, err>>

NextPrimeCall == IsPrimeEnter \/ IsPrimeRound \/ IsPrimeReturnTrue \/ CachedCall

SpecPrime == InitPrime /\ [][NextPrimeCall]_vars

\* The interpreter runs a call to its end: a step that can be taken is taken.
SpecPrimeFair == SpecPrime /\ WF_vars(NextPrimeCall)

---------------------------------------------------------------------------
(* src/plain/sparse_recovery/OneSparseRecoverer.py *)

\* __init__(n) with the outcomes p of the prime oracle and z of randint.
OneSparseRecoverer_init(n, p, z) ==
    [n |-> n, p |-> p, z |-> z, iota |-> 0, fi |-> 0, tau |-> 0]

\* Faulty variant of update: the sign of Delta is dropped.
OneSparseRecoverer_update_Unsigned(o, i, Delta) ==
    LET d == IF Delta < 0 THEN -Delta ELSE Delta
    IN  [o EXCEPT !.iota = @ + (i + 1) * d,
                  !.fi = @ + d,
                  !.tau = PyMod(@ + d * ModPow(o.z, i + 1, o.p), o.p)]

OneSparseRecoverer_update(o, i, Delta) ==
    [o EXCEPT !.iota = @ + (i + 1) * Delta,
              !.fi = @ + Delta,
              !.tau = PyMod(@ + Delta * ModPow(o.z, i + 1, o.p), o.p)]

\* Faulty variant of the test: the quotient iota // fi may be zero or negative.
OneSparseTest_AnyQuotient(z, iota, fi, tau, p) ==
    /\ fi # 0
    /\ PyMod(iota, fi) = 0
    /\ tau = PyMod(fi * ModPow(z, PyFloorDiv(iota, fi), p), p)

\* The test of lines 87-88.
OneSparseTest(z, iota, fi, tau, p) ==
    /\ fi # 0
    /\ PyMod(iota, fi) = 0
    /\ PyFloorDiv(iota, fi) > 0
    /\ tau = PyMod(fi * ModPow(z, PyFloorDiv(iota, fi), p), p)

\* Faulty variant of recover: the index is not shifted back to base 0.
OneSparseRecoverer_recover_Unshifted(o) ==
    IF OneSparseTest(o.z, o.iota, o.fi, o.tau, o.p)
    THEN Pair(PyFloorDiv(o.iota, o.fi), o.fi)
    ELSE None

OneSparseRecoverer_recover(o) ==
    IF OneSparseTest(o.z, o.iota, o.fi, o.tau, o.p)
    THEN Pair(PyFloorDiv(o.iota, o.fi) - 1, o.fi)
    ELSE None

OneSparseCompatible(o, other) ==
    ~(o.z # other.z \/ o.p # other.p \/ o.n # other.n)

OneSparseRecoverer_add(o, other) ==
    [o EXCEPT !.iota = @ + other.iota,
              !.fi = @ + other.fi,
              !.tau = PyMod(@ + other.tau, o.p)]

OneSparseRecoverer_subtract(o, other) ==
    [o EXCEPT !.iota = @ - other.iota,
              !.fi = @ - other.fi,
              !.tau = PyMod(@ - other.tau, o.p)]

\* Vector lengths and witnesses of the 1-sparse behaviours.
OneN == {1, 2, 3}
ZChoices(p) == {z \in 1..(p - 1) : z <= MaxZ \/ z = p - 1}
ZeroVec(n) == [i \in 0..(n - 1) |-> 0]

InitOne ==
    /\ mode = "one"
    /\ \E n \in OneN : \E p \in PrimeChoices(n * 100) :
         \E zA \in ZChoices(p), zB \in ZChoices(p) :
           /\ sk = [s \in Names |->
                      OneSparseRecoverer_init(n, p, IF s = "A" THEN zA ELSE zB)]
           /\ vec = [s \in Names |-> ZeroVec(n)]
    /\ gen = [k \in 0..(GenPeriod - 1) |-> 0]
    /\ rng = Seeded(0)
    /\ op = [name |-> "init", on |-> "A", i |-> 0]
    /\ res = None
    /\ err = ""
    /\ steps = 0

OneUpdate ==
    /\ mode = "one" /\ steps < MaxOps
    /\ \E s \in Names, i \in 0..(sk["A"].n - 1), Delta \in Deltas :
         /\ sk' = [sk EXCEPT ![s] = OneSparseRecoverer_update(@, i, Delta)]
         /\ vec' = [vec EXCEPT ![s] = VecUpdate(@, i, Delta)]
         /\ op' = [name |-> "update", on |-> s, i |-> i]
    /\ res' = None /\ err' = ""
    /\ steps' = steps + 1
    /\ UNCHANGED <<mode, gen, rng>>

\* Faulty variant of the recover call: a successful recover clears the
\* counters.
OneRecover_Clearing ==
    /\ mode = "one" /\ steps < MaxOps
    /\ \E s \in Names :
         /\ res' = OneSparseRecoverer_recover(sk[s])
         /\ sk' = IF res'.kind = "pair"
                  THEN [sk EXCEPT ![s] = OneSparseRecoverer_init(@.n, @.p, @.z)]
                  ELSE sk
         /\ op' = [name |-> "recover", on |-> s, i |-> 0]
    /\ err' = ""
    /\ steps' = steps + 1
    /\ UNCHANGED <<mode, vec, gen, rng>>

OneRecover ==
    /\ mode = "one" /\ steps < MaxOps
    /\ \E s \in Names :
         /\ res' = OneSparseRecoverer_recover(sk[s])
         /\ op' = [name |-> "recover", on |-> s, i |-> 0]
    /\ err' = ""
    /\ steps' = steps + 1
    /\ UNCHANGED <<mode, sk, vec, gen, rng>>

\* A.add(B): ValueError before any counter changes (lines 106-110).
OneAdd ==
    /\ mode = "one" /\ steps < MaxOps
    /\ IF OneSparseCompatible(sk["A"], sk["B"])
       THEN /\ sk' = [sk EXCEPT !["A"] = OneSparseRecoverer_add(@, sk["B"])]
            /\ vec' = [vec EXCEPT !["A"] = VecAdd(@, vec["B"])]
            /\ err' = ""
       ELSE /\ err' = "ValueError"
            /\ UNCHANGED <<sk, vec>>
    /\ op' = [name |-> "add", on |-> "A", i |-> 0]
    /\ res' = None
    /\ steps' = steps + 1
    /\ UNCHANGED <<mode, gen, rng>>

OneSubtract ==
    /\ mode = "one" /\ steps < MaxOps
    /\ IF OneSparseCompatible(sk["A"], sk["B"])
       THEN /\ sk' = [sk EXCEPT !["A"] = OneSparseRecoverer_subtract(@, sk["B"])]
            /\ vec' = [vec EXCEPT !["A"] = VecSub(@, vec["B"])]
            /\ err' = ""
       ELSE /\ err' = "ValueError"
            /\ UNCHANGED <<sk, vec>>
    /\ op' = [name |-> "subtract", on |-> "A", i |-> 0]
    /\ res' = None
    /\ steps' = steps + 1
    /\ UNCHANGED <<mode, gen, rng>>

NextOne == OneUpdate \/ OneRecover \/ OneAdd \/ OneSubtract

SpecOne == InitOne /\ [][NextOne]_vars

---------------------------------------------------------------------------
(* src/tools/hash_function.py *)

\* pick_k_ind_hash_function(n, w, k) from generator state st, p being the
\* oracle's get_next_prime(max(n, w)): k draws fill a (line 39), one more
\* replaces a[0] (line 40).
pick_k_ind_hash_function(g, st, w, k, p) ==
    [a |-> [j \in 0..(k - 1) |->
              IF j = 0 THEN randint(g, Advance(st, k), 1, p)
                       ELSE randint(g, Advance(st, j), 0, p)],
     p |-> p, k |-> k, w |-> w]

\* The loop of h (lines 45-47) from round i.
RECURSIVE HashLoop(_, _, _, _, _)
HashLoop(hf, x, i, r, pow_x) ==
    IF i < hf.k
    THEN HashLoop(hf, x, i + 1,
                  (r + pow_x * hf.a[hf.k - i - 1]) % hf.p,
                  (pow_x * x) % hf.p)
    ELSE r

\* Faulty variant of h: the result is left in [0, p-1].
h_Unreduced(hf, x) == HashLoop(hf, x, 0, 0, 1)

\* h(x) (lines 42-48).
h(hf, x) == HashLoop(hf, x, 0, 0, 1) % hf.w

\* The (n, w, k) the calls of pick_k_ind_hash_function take.
HashParams == {[n |-> n, w |-> w, k |-> k] : n \in {2, 4}, w \in {1, 3}, k \in {1, 2, 3}}

\* A and B are hash functions drawn one after the other.  The generator's
\* outputs cover every coefficient of [0, p].
InitHash ==
    /\ mode = "hash"
    /\ \E q \in HashParams :
         \E p \in PrimeChoices(IF q.n > q.w THEN q.n ELSE q.w) :
           /\ gen \in [0..(GenPeriod - 1) -> 0..p]
           /\ sk = [s \in Names |->
                      pick_k_ind_hash_function(gen,
                          Advance(Seeded(0), IF s = "A" THEN 0 ELSE q.k + 1),
                          q.w, q.k, p)]
           /\ vec = [s \in Names |-> [i \in 0..(q.n - 1) |-> 0]]
           /\ rng = Advance(Seeded(0), 2 * (q.k + 1))
    /\ op = [name |-> "init", on |-> "A", i |-> 0]
    /\ res = None
    /\ err = ""
    /\ steps = 0

\* h(x) for a hash function drawn and an x >= 0.
HashCall ==
    /\ mode = "hash" /\ steps < MaxOps
    /\ \E s \in Names, x \in 0..MaxX :
         /\ res' = PyInt(h(sk[s], x))
         /\ op' = [name |-> "h", on |-> s, i |-> x]
    /\ err' = ""
    /\ steps' = steps + 1
    /\ UNCHANGED <<mode, sk, vec, gen, rng>>

NextHash == HashCall

SpecHash == InitHash /\ [][NextHash]_vars

---------------------------------------------------------------------------
(* src/plain_v2/SparseRecoverer.py *)

\* int(log(m)) for an integer m >= 1: the k with e^k <= m < e^(k+1).  The
\* table holds the least integers above e, e^2, ..
ExpCeil == <<3, 8, 21, 55, 149, 404>>
IntLog(m) == Cardinality({k \in 1..Len(ExpCeil) : ExpCeil[k] <= m})

\* A cell R[i][j] = [z, iota, fi, tau].
Cell(z, iota, fi, tau) == [z |-> z, iota |-> iota, fi |-> fi, tau |-> tau]

\* __init__(n, s, delta) with delta = 1/deltaInv, from generator state st; hp
\* and p are the oracle's primes.  Row hashes draw first (line 63), then the
\* witnesses, row by row (line 68).
SparseRecoverer_init(g, st, n, s, deltaInv, hp, p) ==
    LET columns == 2 * s
        rows == IntLog(s * deltaInv)
        zst == Advance(st, 3 * rows)
    IN  [n |-> n, delta |-> deltaInv, sparse_degree |-> s,
         columns |-> columns, rows |-> rows,
         hash_function |->
            [l \in 0..(rows - 1) |->
               pick_k_ind_hash_function(g, Advance(st, 3 * l), columns, 2, hp)],
         p |-> p,
         R |-> [c \in (0..(rows - 1)) \X (0..(columns - 1)) |->
                  Cell(randint(g, Advance(zst, c[1] * columns + c[2]), 1, p - 1),
                       0, 0, 0)]]

\* Faulty variant of a cell's update: z^i in place of z^(i+1).
CellUpdate_Exponent(r, i, Delta, p) ==
    Cell(r.z, r.iota + (i + 1) * Delta, r.fi + Delta,
         PyMod(r.tau + Delta * ModPow(r.z, i, p), p))

\* The three assignments of update, add and subtract on one cell.
CellUpdate(r, i, Delta, p) ==
    Cell(r.z, r.iota + (i + 1) * Delta, r.fi + Delta,
         PyMod(r.tau + Delta * ModPow(r.z, i + 1, p), p))
CellAdd(r, another, p) ==
    Cell(r.z, r.iota + another.iota, r.fi + another.fi,
         PyMod(r.tau + another.tau, p))
\* Faulty variant of a cell's subtract: tau is not reduced.
CellSubtract_Unreduced(r, another, p) ==
    Cell(r.z, r.iota - another.iota, r.fi - another.fi, r.tau - another.tau)
CellSubtract(r, another, p) ==
    Cell(r.z, r.iota - another.iota, r.fi - another.fi,
         PyMod(r.tau - another.tau, p))

\* Faulty variant of update: the loop over rows stops after the first row.
SparseRecoverer_update_FirstRow(o, i, Delta) ==
    [o EXCEPT !.R =
       [c \in DOMAIN o.R |->
          IF c[1] = 0 /\ h(o.hash_function[c[1]], i) = c[2]
          THEN CellUpdate(o.R[c], i, Delta, o.p)
          ELSE o.R[c]]]

\* update(i, Delta): in each row the cell at column hash_function[l](i).
SparseRecoverer_update(o, i, Delta) ==
    [o EXCEPT !.R =
       [c \in DOMAIN o.R |->
          IF h(o.hash_function[c[1]], i) = c[2]
          THEN CellUpdate(o.R[c], i, Delta, o.p)
          ELSE o.R[c]]]

\* Cells in the order the loops visit them.
CellRank(o, c) == c[1] * o.columns + c[2]
CellPasses(r, p) == OneSparseTest(r.z, r.iota, r.fi, r.tau, p)

\* Faulty variant of the merge: an index of 0 is taken for no index.
MergeCells_Truthy(cells, passing, rank) ==
    LET idxOf(c) == PyFloorDiv(cells[c].iota, cells[c].fi) - 1
        keys == {idxOf(c) : c \in passing} \ {0}
        last(k) == CHOOSE c \in passing :
                      /\ idxOf(c) = k
                      /\ \A d \in passing : idxOf(d) = k => rank[d] <= rank[c]
    IN  [k \in keys |-> cells[last(k)].fi]

\* The dict built by a loop over cells that assigns result[idx] = fi at each
\* passing cell: a later cell overwrites an earlier one.  rank[c] is the
\* position of cell c in the loop.
MergeCells(cells, passing, rank) ==
    LET idxOf(c) == PyFloorDiv(cells[c].iota, cells[c].fi) - 1
        keys == {idxOf(c) : c \in passing}
        last(k) == CHOOSE c \in passing :
                      /\ idxOf(c) = k
                      /\ \A d \in passing : idxOf(d) = k => rank[d] <= rank[c]
    IN  [k \in keys |-> cells[last(k)].fi]

\* Faulty variant of recover: a dict of more than s entries is discarded.
SparseRecoverer_recover_Filtered(o) ==
    LET passing == {c \in DOMAIN o.R : CellPasses(o.R[c], o.p)}
        rank == [c \in passing |-> CellRank(o, c)]
        result == MergeCells(o.R, passing, rank)
    IN  IF passing # {} /\ Cardinality(DOMAIN result) <= o.sparse_degree
        THEN Dict(result) ELSE None

\* recover(): the merged dict, or None when it is empty.
SparseRecoverer_recover(o) ==
    LET passing == {c \in DOMAIN o.R : CellPasses(o.R[c], o.p)}
        rank == [c \in passing |-> CellRank(o, c)]
        result == MergeCells(o.R, passing, rank)
    IN  IF passing # {} THEN Dict(result) ELSE None

\* The parameter test of add and subtract (lines 152-155, 185-188).
SparseCompatible(o, other) ==
    ~(\/ o.n # other.n
      \/ o.sparse_degree # other.sparse_degree
      \/ o.delta # other.delta
      \/ o.p # other.p)

\* The cells the loop of add / subtract reaches before it raises: all of them
\* when every witness matches, else those before the first mismatch.
Mismatches(o, other) == {c \in DOMAIN o.R : o.R[c].z # other.R[c].z}
ReachedCells(o, other) ==
    {c \in DOMAIN o.R :
        \A d \in Mismatches(o, other) : CellRank(o, c) < CellRank(o, d)}

\* add(other): the receiver after the call and the error raised.
SparseRecoverer_add(o, other) ==
    IF ~SparseCompatible(o, other)
    THEN [obj |-> o, err |-> "ValueError"]
    ELSE [obj |-> [o EXCEPT !.R =
                     [c \in DOMAIN o.R |->
                        IF c \in ReachedCells(o, other)
                        THEN CellAdd(o.R[c], other.R[c], o.p)
                        ELSE o.R[c]]],
          err |-> IF Mismatches(o, other) = {} THEN "" ELSE "ValueError"]

SparseRecoverer_subtract(o, other) ==
    IF ~SparseCompatible(o, other)
    THEN [obj |-> o, err |-> "ValueError"]
    ELSE [obj |-> [o EXCEPT !.R =
                     [c \in DOMAIN o.R |->
                        IF c \in ReachedCells(o, other)
                        THEN CellSubtract(o.R[c], other.R[c], o.p)
                        ELSE o.R[c]]],
          err |-> IF Mismatches(o, other) = {} THEN "" ELSE "ValueError"]

\* The (n, s, 1/delta) the s-sparse behaviours construct.
SparseParams == {[n |-> 2, s |-> 1, deltaInv |-> 8]}
Seeds == 0..MaxSeed

\* A and B are each constructed right after a random.seed call.
InitSparse ==
    /\ mode = "sparse"
    /\ \E q \in SparseParams :
         \E hp \in PrimeChoices(IF q.n > 2 * q.s THEN q.n ELSE 2 * q.s) :
         \E p \in PrimeChoices(q.n * 100) :
         \E seedA \in Seeds, seedB \in Seeds :
           /\ gen \in GenFunctions
           /\ sk = [s \in Names |->
                      SparseRecoverer_init(gen,
                          Seeded(IF s = "A" THEN seedA ELSE seedB),
                          q.n, q.s, q.deltaInv, hp, p)]
           /\ vec = [s \in Names |-> ZeroVec(q.n)]
           /\ rng = Advance(Seeded(seedB), 3 * sk["B"].rows + Cardinality(DOMAIN sk["B"].R))
    /\ op = [name |-> "init", on |-> "A", i |-> 0]
    /\ res = None
    /\ err = ""
    /\ steps = 0

SparseUpdate ==
    /\ mode = "sparse" /\ steps < MaxOps
    /\ \E s \in Names, i \in 0..(sk["A"].n - 1), Delta \in Deltas :
         /\ sk' = [sk EXCEPT ![s] = SparseRecoverer_update(@, i, Delta)]
         /\ vec' = [vec EXCEPT ![s] = VecUpdate(@, i, Delta)]
         /\ op' = [name |-> "update", on |-> s, i |-> i]
    /\ res' = None /\ err' = ""
    /\ steps' = steps + 1
    /\ UNCHANGED <<mode, gen, rng>>

SparseRecover ==
    /\ mode = "sparse" /\ steps < MaxOps
    /\ \E s \in Names :
         /\ res' = SparseRecoverer_recover(sk[s])
         /\ op' = [name |-> "recover", on |-> s, i |-> 0]
    /\ err' = ""
    /\ steps' = steps + 1
    /\ UNCHANGED <<mode, sk, vec, gen, rng>>

SparseAdd ==
    /\ mode = "sparse" /\ steps < MaxOps
    /\ \E r \in {SparseRecoverer_add(sk["A"], sk["B"])} :
           /\ sk' = [sk EXCEPT !["A"] = r.obj]
           /\ err' = r.err
           /\ vec' = IF r.err = "" THEN [vec EXCEPT !["A"] = VecAdd(@, vec["B"])]
                     ELSE vec
    /\ op' = [name |-> "add", on |-> "A", i |-> 0]
    /\ res' = None
    /\ steps' = steps + 1
    /\ UNCHANGED <<mode, gen, rng>>

SparseSubtract ==
    /\ mode = "sparse" /\ steps < MaxOps
    /\ \E r \in {SparseRecoverer_subtract(sk["A"], sk["B"])} :
           /\ sk' = [sk EXCEPT !["A"] = r.obj]
           /\ err' = r.err
           /\ vec' = IF r.err = "" THEN [vec EXCEPT !["A"] = VecSub(@, vec["B"])]
                     ELSE vec
    /\ op' = [name |-> "subtract", on |-> "A", i |-> 0]
    /\ res' = None
    /\ steps' = steps + 1
    /\ UNCHANGED <<mode, gen, rng>>

NextSparse == SparseUpdate \/ SparseRecover \/ SparseAdd \/ SparseSubtract

SpecSparse == InitSparse /\ [][NextSparse]_vars

---------------------------------------------------------------------------
(* src/fast/L0Sampler.py: the sampler whose cells and column hashes are    *)
(* derived from the seed on first use and kept in dicts.                   *)

\* ceil(log2(n)) for n >= 1.
RECURSIVE CeilLog2From(_, _, _)
CeilLog2From(n, l, pw) == IF pw >= n THEN l ELSE CeilLog2From(n, l + 1, 2 * pw)
CeilLog2(n) == CeilLog2From(n, 0, 1)

\* __init__(n, delta, init_seed) (lines 52-91).  init_seed is the value given
\* or the 32 bits drawn for it; hp, prime_after_n and one_sp_rec_p are the
\* oracle's primes.  eps, delta and delta_r are stored and never read: the
\* model leaves them out.  A dict iterates in insertion order: values_order
\* is that of recoverers_values.
FastL0Sampler_init(g, n, init_seed, hp, prime_after_n, one_sp_rec_p) ==
    [init_seed |-> init_seed,
     n_hash_power |-> 1,
     n |-> n,
     n_sq |-> n * n,
     levels |-> CeilLog2(n),
     k |-> 4,
     sparse_degree |-> 2 * 4,
     hash_function |-> pick_k_ind_hash_function(g, Seeded(init_seed), n, 4, hp),
     recoverers_values |-> [c \in {} |-> 0],
     values_order |-> <<>>,
     recoverers_rows |-> 4,
     recoverers_columns |-> 2 * (2 * 4),
     recoverers_column_hash_params |-> [c \in {} |-> 0],
     prime_after_n |-> prime_after_n,
     one_sp_rec_p |-> one_sp_rec_p]

\* The generator's state after __init__: seeded, then the five draws of the
\* tag hash.
FastInitRng(init_seed) == Advance(Seeded(init_seed), 4 + 1)

\* The seeds of lines 107 and 123.
ZSeedKey(o, level, row, column) ==
    Xor(level * o.n_sq + row * o.n + column, o.init_seed)
ColumnSeedKey(o, level, row) == Xor(level * o.n + row, o.init_seed)

get_one_sp_rec_z(o, g, level, row, column) ==
    randint(g, Seeded(ZSeedKey(o, level, row, column)), 1, o.one_sp_rec_p - 1)

get_recoverers_column_hash_params(o, g, level, row) ==
    LET st == Seeded(ColumnSeedKey(o, level, row))
    IN  <<randint(g, st, 1, o.prime_after_n - 1),
          randint(g, Advance(st, 1), 0, o.prime_after_n - 1)>>

\* get_column with the parameters a of (level, row).
get_column(o, a, i) ==
    ((i * a[1] + a[2]) % o.prime_after_n) % o.recoverers_columns

\* Faulty variant of the while loop: the comparison is strict.
RECURSIVE MaxLevelLoop_Strict(_, _, _, _)
MaxLevelLoop_Strict(n_copy, hash_value, max_l, levels) ==
    IF n_copy > hash_value /\ max_l < levels
    THEN MaxLevelLoop_Strict(n_copy \div 2, hash_value, max_l + 1, levels)
    ELSE max_l

\* The while loop of update (lines 158-162).
RECURSIVE MaxLevelLoop(_, _, _, _)
MaxLevelLoop(n_copy, hash_value, max_l, levels) ==
    IF n_copy >= hash_value /\ max_l < levels
    THEN MaxLevelLoop(n_copy \div 2, hash_value, max_l + 1, levels)
    ELSE max_l

MaxLevel(o, i) == MaxLevelLoop(o.n - 1, h(o.hash_function, i), 0, o.levels)

\* update(i, Delta), lines 164-176.  Round (level, row) of the loops fetches
\* the row's hash parameters, creating them when absent (a reseed and two
\* draws), then the cell at the row's column, creating it when absent (a reseed
\* and one draw), and updates the cell.  Rounds touch distinct keys, so what
\* one creates another never finds.
FastParams(o, g, level, row) ==
    IF <<level, row>> \in DOMAIN o.recoverers_column_hash_params
    THEN o.recoverers_column_hash_params[<<level, row>>]
    ELSE get_recoverers_column_hash_params(o, g, level, row)
FastColumn(o, g, level, row, i) == get_column(o, FastParams(o, g, level, row), i)
\* Faulty variant of the fetch: the cell is allocated anew each time.
FastCellOrNew_Fresh(o, g, key) ==
    Cell(get_one_sp_rec_z(o, g, key[1], key[2], key[3]), 0, 0, 0)

FastCellOrNew(o, g, key) ==
    IF key \in DOMAIN o.recoverers_values
    THEN o.recoverers_values[key]
    ELSE Cell(get_one_sp_rec_z(o, g, key[1], key[2], key[3]), 0, 0, 0)

\* The insertion order of recoverers_values and the generator state after
\* rounds k.. of the loops, from (order, st).
RECURSIVE FastRoundsFrom(_, _, _, _, _, _, _)
FastRoundsFrom(o, g, i, k, rounds, order, st) ==
    IF k < rounds
    THEN LET level == k \div o.recoverers_rows
             row == k % o.recoverers_rows
             key == <<level, row, FastColumn(o, g, level, row, i)>>
         IN  FastRoundsFrom(o, g, i, k + 1, rounds,
                IF key \in DOMAIN o.recoverers_values THEN order
                ELSE Append(order, key),
                IF key \notin DOMAIN o.recoverers_values
                THEN Advance(Seeded(ZSeedKey(o, level, row, key[3])), 1)
                ELSE IF <<level, row>> \notin DOMAIN o.recoverers_column_hash_params
                THEN Advance(Seeded(ColumnSeedKey(o, level, row)), 2)
                ELSE st)
    ELSE [order |-> order, rng |-> st]

FastUpdateTo(o, g, st, i, Delta, max_l) ==
    LET rounds == (0..(max_l - 1)) \X (0..(o.recoverers_rows - 1))
        after == FastRoundsFrom(o, g, i, 0, max_l * o.recoverers_rows,
                                o.values_order, st)
    IN  [obj |-> [o EXCEPT
            !.recoverers_column_hash_params =
                [r \in DOMAIN o.recoverers_column_hash_params \cup rounds |->
                    FastParams(o, g, r[1], r[2])],
            !.recoverers_values =
                [c \in DOMAIN o.recoverers_values
                       \cup {<<r[1], r[2], FastColumn(o, g, r[1], r[2], i)>> : r \in rounds} |->
                    IF c[1] < max_l /\ FastColumn(o, g, c[1], c[2], i) = c[3]
                    THEN CellUpdate(FastCellOrNew(o, g, c), i, Delta, o.one_sp_rec_p)
                    ELSE o.recoverers_values[c]],
            !.values_order = after.order],
         rng |-> after.rng]

\* update(i, Delta): the sampler and the generator state after the call.
\* No test of i against [0, n-1] is made.
FastL0Sampler_update(o, g, st, i, Delta) ==
    FastUpdateTo(o, g, st, i, Delta, MaxLevel(o, i))

\* get_samples(): the loops of lines 236-251 visit the cells present, level by
\* level, row by row, column by column.
FastRank(o, c) ==
    (c[1] * o.recoverers_rows + c[2]) * o.recoverers_columns + c[3]
FastVisited(o) ==
    {c \in DOMAIN o.recoverers_values :
        /\ c[1] \in 0..(o.levels - 1)
        /\ c[2] \in 0..(o.recoverers_rows - 1)
        /\ c[3] \in 0..(o.recoverers_columns - 1)}
FastPassing(o) ==
    {c \in FastVisited(o) : CellPasses(o.recoverers_values[c], o.one_sp_rec_p)}

\* Faulty variant of get_samples: the index is not shifted back to base 0.
FastL0Sampler_get_samples_Unshifted(o) ==
    LET rank == [c \in FastPassing(o) |-> FastRank(o, c)]
        m == MergeCells(o.recoverers_values, FastPassing(o), rank)
    IN  [k \in {j + 1 : j \in DOMAIN m} |-> m[k - 1]]

FastL0Sampler_get_samples(o) ==
    LET rank == [c \in FastPassing(o) |-> FastRank(o, c)]
    IN  MergeCells(o.recoverers_values, FastPassing(o), rank)

\* list(samples.keys()): the keys in the order the loops first assigned them.
FirstRank(o, k) ==
    LET cs == {c \in FastPassing(o) :
                 PyFloorDiv(o.recoverers_values[c].iota, o.recoverers_values[c].fi) - 1 = k}
    IN  CHOOSE r \in {FastRank(o, c) : c \in cs} :
           \A c \in cs : r <= FastRank(o, c)
KeyAt(o, samples, pos) ==
    CHOOSE k \in DOMAIN samples :
       Cardinality({j \in DOMAIN samples : FirstRank(o, j) < FirstRank(o, k)}) = pos

\* get_sample(): None, or (i, samples[i]) for the key random.choice picks.
FastL0Sampler_get_sample(o, g, st) ==
    LET samples == FastL0Sampler_get_samples(o)
        len == Cardinality(DOMAIN samples)
    IN  IF len = 0
        THEN [res |-> None, rng |-> st]
        ELSE LET i == KeyAt(o, samples, randint(g, st, 0, len - 1))
             IN  [res |-> Pair(i, samples[i]), rng |-> Advance(st, 1)]

\* The tests of lines 271-275 and 308-312.
FastCompatible(o, other) ==
    /\ ~(o.n # other.n)
    /\ ~(o.init_seed # other.init_seed)

\* The loop of add / subtract over the other sampler's cells, in its dict's
\* order: a cell the receiver lacks is created first, with the receiver's z
\* for it (a reseed and one draw).
FastWithCells(o, g, other) ==
    [c \in DOMAIN o.recoverers_values \cup DOMAIN other.recoverers_values |->
        FastCellOrNew(o, g, c)]
FastCreated(o, other) ==
    SelectSeq(other.values_order, LAMBDA c : c \notin DOMAIN o.recoverers_values)
FastMismatches(o, g, other) ==
    {c \in DOMAIN other.recoverers_values :
        FastCellOrNew(o, g, c).z # other.recoverers_values[c].z}

\* add(other) past the tests.  The z of a cell is a function of (n, seed, p)
\* and its key, so with n and seed equal and p from the oracle's cache no
\* witness differs and the raise of line 287 is not reached.
\* Faulty variant of add: a cell the receiver lacks is skipped.
FastL0Sampler_add_Existing(o, g, other) ==
    [o EXCEPT
       !.recoverers_values =
          [c \in DOMAIN o.recoverers_values |->
             IF c \in DOMAIN other.recoverers_values
             THEN CellAdd(o.recoverers_values[c], other.recoverers_values[c],
                          o.one_sp_rec_p)
             ELSE o.recoverers_values[c]]]

FastL0Sampler_add(o, g, other) ==
    LET cells == FastWithCells(o, g, other)
    IN  [o EXCEPT
           !.recoverers_values =
              [c \in DOMAIN cells |->
                 IF c \in DOMAIN other.recoverers_values
                 THEN CellAdd(cells[c], other.recoverers_values[c], o.one_sp_rec_p)
                 ELSE cells[c]],
           !.values_order = @ \o FastCreated(o, other)]

FastL0Sampler_subtract(o, g, other) ==
    LET cells == FastWithCells(o, g, other)
    IN  [o EXCEPT
           !.recoverers_values =
              [c \in DOMAIN cells |->
                 IF c \in DOMAIN other.recoverers_values
                 THEN CellSubtract(cells[c], other.recoverers_values[c], o.one_sp_rec_p)
                 ELSE cells[c]],
           !.values_order = @ \o FastCreated(o, other)]

\* The generator state after the loop of add / subtract.
FastRngAfterCombine(o, other, st) ==
    LET created == FastCreated(o, other)
        c == created[Len(created)]
    IN  IF created = <<>> THEN st
        ELSE Advance(Seeded(ZSeedKey(o, c[1], c[2], c[3])), 1)

\* Vector lengths of the sampler behaviours, and the indices they update: the
\* two ends of the vector.
FastN == {3, 17}
IndexSamples(n) == {0, n - 1}
\* Indices outside [0, n-1] that callers pass.
OutOfRange(n) == {n}
GhostVec(n) == [i \in 0..n |-> 0]

\* The sampler behaviours take the oracle's primes to be prime.
InitFast ==
    /\ mode = "fast"
    /\ \E n \in FastN :
         \E hp \in {NextPrime(n)}, p \in {NextPrime(n * 100)}, seed \in Seeds :
           /\ gen \in GenFunctions
           /\ sk = [s \in Names |-> FastL0Sampler_init(gen, n, seed, hp, hp, p)]
           /\ vec = [s \in Names |-> GhostVec(n)]
           /\ rng = FastInitRng(seed)
    /\ op = [name |-> "init", on |-> "A", i |-> 0]
    /\ res = None
    /\ err = ""
    /\ steps = 0

\* update(i, Delta) with i in [0, n-1], on either sampler.
FastUpdate ==
    /\ mode = "fast" /\ steps < MaxSamplerOps
    /\ \E s \in Names, Delta \in Deltas : \E i \in IndexSamples(sk[s].n) :
         \E r \in {FastL0Sampler_update(sk[s], gen, rng, i, Delta)} :
             /\ sk' = [sk EXCEPT ![s] = r.obj]
             /\ rng' = r.rng
             /\ vec' = [vec EXCEPT ![s] = VecUpdate(@, i, Delta)]
             /\ op' = [name |-> "update", on |-> s, i |-> i]
    /\ res' = None /\ err' = ""
    /\ steps' = steps + 1
    /\ UNCHANGED <<mode, gen>>

\* update(i, Delta) with i outside [0, n-1].
FastUpdateOutOfRange ==
    /\ mode = "fast" /\ steps < MaxSamplerOps
    /\ \E i \in OutOfRange(sk["A"].n) :
         \E r \in {FastL0Sampler_update(sk["A"], gen, rng, i, MaxDelta)} :
             /\ sk' = [sk EXCEPT !["A"] = r.obj]
             /\ rng' = r.rng
             /\ vec' = [vec EXCEPT !["A"] = VecUpdate(@, i, MaxDelta)]
             /\ op' = [name |-> "update", on |-> "A", i |-> i]
    /\ res' = None /\ err' = ""
    /\ steps' = steps + 1
    /\ UNCHANGED <<mode, gen>>

FastGetSamples ==
    /\ mode = "fast" /\ steps < MaxSamplerOps
    /\ res' = Dict(FastL0Sampler_get_samples(sk["A"]))
    /\ op' = [name |-> "get_samples", on |-> "A", i |-> 0]
    /\ err' = ""
    /\ steps' = steps + 1
    /\ UNCHANGED <<mode, sk, vec, gen, rng>>

FastGetSample ==
    /\ mode = "fast" /\ steps < MaxSamplerOps
    /\ \E r \in {FastL0Sampler_get_sample(sk["A"], gen, rng)} :
         res' = r.res /\ rng' = r.rng
    /\ op' = [name |-> "get_sample", on |-> "A", i |-> 0]
    /\ err' = ""
    /\ steps' = steps + 1
    /\ UNCHANGED <<mode, sk, vec, gen>>

FastAdd ==
    /\ mode = "fast" /\ steps < MaxSamplerOps
    /\ IF ~FastCompatible(sk["A"], sk["B"])
       THEN err' = "ValueError" /\ UNCHANGED <<sk, vec, rng>>
       ELSE /\ FastMismatches(sk["A"], gen, sk["B"]) = {}
            /\ sk' = [sk EXCEPT !["A"] = FastL0Sampler_add(@, gen, sk["B"])]
            /\ rng' = FastRngAfterCombine(sk["A"], sk["B"], rng)
            /\ vec' = [vec EXCEPT !["A"] = VecAdd(@, vec["B"])]
            /\ err' = ""
    /\ op' = [name |-> "add", on |-> "A", i |-> 0]
    /\ res' = None
    /\ steps' = steps + 1
    /\ UNCHANGED <<mode, gen>>

FastSubtract ==
    /\ mode = "fast" /\ steps < MaxSamplerOps
    /\ IF ~FastCompatible(sk["A"], sk["B"])
       THEN err' = "ValueError" /\ UNCHANGED <<sk, vec, rng>>
       ELSE /\ FastMismatches(sk["A"], gen, sk["B"]) = {}
            /\ sk' = [sk EXCEPT !["A"] = FastL0Sampler_subtract(@, gen, sk["B"])]
            /\ rng' = FastRngAfterCombine(sk["A"], sk["B"], rng)
            /\ vec' = [vec EXCEPT !["A"] = VecSub(@, vec["B"])]
            /\ err' = ""
    /\ op' = [name |-> "subtract", on |-> "A", i |-> 0]
    /\ res' = None
    /\ steps' = steps + 1
    /\ UNCHANGED <<mode, gen>>

NextFast ==
    FastUpdate \/ FastUpdateOutOfRange \/ FastGetSamples \/ FastGetSample \/ FastAdd \/ FastSubtract

SpecFast == InitFast /\ [][NextFast]_vars

---------------------------------------------------------------------------
(* src/sparse_recovery/OneSparseRecoverer.py: the 1-sparse recoverer the   *)
(* sampler of src/L0Sampler.py is built from.  recover() returns False for *)
(* an empty cell and True for one that fails the test.                     *)

PyFalse == [kind |-> "False"]
PyTrue == [kind |-> "True"]

RootOne_init(n, p, z) ==
    [n |-> n, p |-> p, z |-> z, iota |-> 0, fi |-> 0, tau |-> 0]

RootOne_update(r, i, Delta) ==
    [r EXCEPT !.iota = @ + (i + 1) * Delta,
              !.fi = @ + Delta,
              !.tau = PyMod(@ + Delta * ModPow(r.z, i + 1, r.p), r.p)]

\* iota / fi is a float division; its value is read only where fi divides
\* iota, and there it is the integer quotient.
RootOne_recover(r) ==
    IF r.fi = 0 THEN PyFalse
    ELSE IF /\ PyMod(r.iota, r.fi) = 0
            /\ PyFloorDiv(r.iota, r.fi) > 0
            /\ r.tau = PyMod(r.fi * ModPow(r.z, PyFloorDiv(r.iota, r.fi), r.p), r.p)
    THEN Pair(PyFloorDiv(r.iota, r.fi) - 1, r.fi)
    ELSE PyTrue

RootOneCompatible(r, another) ==
    ~(r.z # another.z \/ r.p # another.p \/ r.n # another.n)

RootOne_add(r, another) ==
    [r EXCEPT !.iota = @ + another.iota,
              !.fi = @ + another.fi,
              !.tau = PyMod(@ + another.tau, r.p)]

---------------------------------------------------------------------------
(* src/tools/validation.py *)

\* check_in_range(a, b, i) returns; otherwise it raises ValueError.
check_in_range(a, b, i) == a <= i /\ i <= b

---------------------------------------------------------------------------
(* src/sparse_recovery/SparseRecoverer.py *)

\* __init__(n, s, delta) with delta = 1/deltaInv, from generator state st; hp
\* and p are the oracle's primes.  Row hashes draw first (line 64), then the
\* cells' witnesses, row by row (line 66).  __init__ sets n, delta,
\* sparse_degree, columns, rows, hash_function and R, and no other attribute.
RootSparseRecoverer_init(g, st, n, s, deltaInv, hp, p) ==
    LET columns == 2 * s
        rows == IntLog(s * deltaInv)
        zst == Advance(st, 3 * rows)
    IN  [n |-> n, delta |-> deltaInv, sparse_degree |-> s,
         columns |-> columns, rows |-> rows,
         hash_function |->
            [l \in 0..(rows - 1) |->
               pick_k_ind_hash_function(g, Advance(st, 3 * l), columns, 2, hp)],
         R |-> [c \in (0..(rows - 1)) \X (0..(columns - 1)) |->
                  RootOne_init(n, p,
                      randint(g, Advance(zst, c[1] * columns + c[2]), 1, p - 1))]]

\* The draws one __init__ makes.
RootSparseDraws(s, deltaInv) == IntLog(s * deltaInv) * (3 + 2 * s)

RootSparseRecoverer_update(o, i, Delta) ==
    [o EXCEPT !.R =
       [c \in DOMAIN o.R |->
          IF h(o.hash_function[c[1]], i) = c[2]
          THEN RootOne_update(o.R[c], i, Delta)
          ELSE o.R[c]]]

\* recover(): every cell's result is subscripted (line 105), for it is never
\* None; a bool raises TypeError.
RootSparseRecoverer_recover(o) ==
    LET rank == [c \in DOMAIN o.R |-> CellRank(o, c)]
    IN  IF \E c \in DOMAIN o.R : RootOne_recover(o.R[c]).kind # "pair"
        THEN [res |-> None, err |-> "TypeError"]
        ELSE IF DOMAIN o.R = {}
        THEN [res |-> None, err |-> ""]
        ELSE [res |-> Dict(MergeCells(o.R, DOMAIN o.R, rank)), err |-> ""]

RootSparseCompatible(o, other) ==
    ~(\/ o.n # other.n
      \/ o.sparse_degree # other.sparse_degree
      \/ o.delta # other.delta)

\* add(other): the receiver after the call and the error raised.  Line 146
\* reads self.sum_of_vector before any cell is touched.
RootSparseRecoverer_add(o, other) ==
    IF ~RootSparseCompatible(o, other)
    THEN [obj |-> o, err |-> "ValueError"]
    ELSE IF "sum_of_vector" \notin DOMAIN o \/ "sum_of_vector" \notin DOMAIN other
    THEN [obj |-> o, err |-> "AttributeError"]
    ELSE [obj |-> [o EXCEPT
                     !.sum_of_vector = @ + other.sum_of_vector,
                     !.R = [c \in DOMAIN o.R |->
                              IF c \in ReachedCells(o, other)
                              THEN RootOne_add(o.R[c], other.R[c])
                              ELSE o.R[c]]],
          err |-> IF Mismatches(o, other) = {} THEN "" ELSE "ValueError"]

---------------------------------------------------------------------------
(* src/L0Sampler.py *)

\* int(ceil(log(m))) for an integer m >= 1.
CeilLog(m) == Cardinality({k \in 1..Len(ExpCeil) : ExpCeil[k] <= m})
                 + (IF m = 1 THEN 0 ELSE 1)

\* __init__(n, init_seed) with an int init_seed (lines 50-68): eps = delta =
\* 1/n.  hp, rhp and p are the oracle's primes for the tag hash, the row
\* hashes and the cells.
L0Sampler_init(g, n, init_seed, hp, rhp, p) ==
    LET s == CeilLog(n * n)
        k == s \div 2
        st == Advance(Seeded(init_seed), k + 1)
    IN  [init_seed |-> init_seed,
         n |-> n,
         levels |-> CeilLog2(n),
         n_hash_power |-> 1,
         sparse_degree |-> s,
         k |-> k,
         hash_function |->
            pick_k_ind_hash_function(g, Seeded(init_seed), n, k, hp),
         recoverers |->
            [l \in 0..(CeilLog2(n) - 1) |->
               RootSparseRecoverer_init(g, Advance(st, l * RootSparseDraws(s, n)),
                                        n, s, n, rhp, p)]]

\* The generator's state after __init__.
RootInitRng(n, init_seed) ==
    LET s == CeilLog(n * n)
    IN  Advance(Seeded(init_seed),
                (s \div 2) + 1 + CeilLog2(n) * RootSparseDraws(s, n))

\* update(i, Delta): the sampler after the call and the error raised.
L0Sampler_update(o, i, Delta) ==
    IF ~check_in_range(0, o.n - 1, i)
    THEN [obj |-> o, err |-> "ValueError"]
    ELSE [obj |-> [o EXCEPT !.recoverers =
                     [l \in DOMAIN o.recoverers |->
                        IF ShiftRight(o.n ^ o.n_hash_power, l) > h(o.hash_function, i)
                        THEN RootSparseRecoverer_update(o.recoverers[l], i, Delta)
                        ELSE o.recoverers[l]]],
          err |-> ""]

\* list(recover_result.keys()): the keys in the order the cells first
\* assigned them.
RootFirstRank(r, k) ==
    LET cs == {c \in DOMAIN r.R : PyFloorDiv(r.R[c].iota, r.R[c].fi) - 1 = k}
    IN  CHOOSE m \in {CellRank(r, c) : c \in cs} :
           \A c \in cs : m <= CellRank(r, c)
RootKeyAt(r, keys, pos) ==
    CHOOSE k \in keys :
       Cardinality({j \in keys : RootFirstRank(r, j) < RootFirstRank(r, k)}) = pos

\* The loop of get_sample (lines 136-141) from level l: the keys of result in
\* insertion order, result, and the generator's state.
RECURSIVE GetSampleLoop(_, _, _, _, _, _)
GetSampleLoop(o, g, st, l, order, result) ==
    IF l >= o.levels THEN [order |-> order, result |-> result, rng |-> st, err |-> ""]
    ELSE LET rr == RootSparseRecoverer_recover(o.recoverers[l])
         IN  IF rr.err # ""
             THEN [order |-> order, result |-> result, rng |-> st, err |-> rr.err]
             ELSE IF rr.res.kind # "dict"
             THEN GetSampleLoop(o, g, st, l + 1, order, result)
             ELSE LET keys == DOMAIN rr.res.map
                      key == RootKeyAt(o.recoverers[l], keys,
                                       randint(g, st, 0, Cardinality(keys) - 1))
                  IN  GetSampleLoop(o, g, Advance(st, 1), l + 1,
                         IF key \in DOMAIN result THEN order ELSE Append(order, key),
                         [j \in DOMAIN result \cup {key} |->
                            IF j = key THEN rr.res.map[key] ELSE result[j]])

\* get_sample(): the value returned, the error raised and the generator's
\* state.
L0Sampler_get_sample(o, g, st) ==
    LET r == GetSampleLoop(o, g, st, 0, <<>>, [j \in {} |-> 0])
    IN  IF r.err # "" THEN [res |-> None, err |-> r.err, rng |-> r.rng]
        ELSE IF Len(r.order) > 0
        THEN LET key == r.order[randint(g, r.rng, 0, Len(r.order) - 1) + 1]
             IN  [res |-> Pair(key, r.result[key]), err |-> "",
                  rng |-> Advance(r.rng, 1)]
        ELSE [res |-> None, err |-> "", rng |-> r.rng]

\* The loop of add (lines 186-187) from level l.
RECURSIVE RootAddLoop(_, _, _)
RootAddLoop(o, other, l) ==
    IF l >= o.levels THEN [obj |-> o, err |-> ""]
    ELSE LET r == RootSparseRecoverer_add(o.recoverers[l], other.recoverers[l])
             next == [o EXCEPT !.recoverers[l] = r.obj]
         IN  IF r.err # "" THEN [obj |-> next, err |-> r.err]
             ELSE RootAddLoop(next, other, l + 1)

\* add(other): the receiver after the call and the error raised.
L0Sampler_add(o, other) ==
    IF o.n # other.n THEN [obj |-> o, err |-> "ValueError"]
    ELSE IF o.init_seed # other.init_seed THEN [obj |-> o, err |-> "ValueError"]
    ELSE RootAddLoop(o, other, 0)

\* Vector lengths of these behaviours: that of testing/test_l0_sampler.py's
\* test3 and the next.
RootN == {2, 3}

\* B is constructed after A, each after random.seed(seed).
InitRoot ==
    /\ mode = "root"
    /\ \E n \in RootN, seed \in Seeds :
         /\ gen \in GenFunctions
         /\ sk = [s \in Names |->
                    L0Sampler_init(gen, n, seed, NextPrime(n),
                        NextPrime(IF n > 2 * CeilLog(n * n) THEN n
                                  ELSE 2 * CeilLog(n * n)),
                        NextPrime(n * n))]
         /\ vec = [s \in Names |-> ZeroVec(n)]
         /\ rng = RootInitRng(n, seed)
    /\ op = [name |-> "init", on |-> "A", i |-> 0]
    /\ res = None
    /\ err = ""
    /\ steps = 0

\* update(i, Delta) with i in [0, n-1], on either sampler.
RootUpdate ==
    /\ mode = "root" /\ steps < MaxSamplerOps
    /\ \E s \in Names, Delta \in Deltas : \E i \in 0..(sk[s].n - 1) :
         \E r \in {L0Sampler_update(sk[s], i, Delta)} :
             /\ sk' = [sk EXCEPT ![s] = r.obj]
             /\ err' = r.err
             /\ vec' = [vec EXCEPT ![s] = VecUpdate(@, i, Delta)]
             /\ op' = [name |-> "update", on |-> s, i |-> i]
    /\ res' = None
    /\ steps' = steps + 1
    /\ UNCHANGED <<mode, gen, rng>>

\* update(i, Delta) with i outside [0, n-1].
RootUpdateOutOfRange ==
    /\ mode = "root" /\ steps < MaxSamplerOps
    /\ \E i \in OutOfRange(sk["A"].n) :
         \E r \in {L0Sampler_update(sk["A"], i, MaxDelta)} :
             /\ sk' = [sk EXCEPT !["A"] = r.obj]
             /\ err' = r.err
             /\ op' = [name |-> "update", on |-> "A", i |-> i]
    /\ res' = None
    /\ steps' = steps + 1
    /\ UNCHANGED <<mode, vec, gen, rng>>

RootGetSample ==
    /\ mode = "root" /\ steps < MaxSamplerOps
    /\ \E r \in {L0Sampler_get_sample(sk["A"], gen, rng)} :
         res' = r.res /\ err' = r.err /\ rng' = r.rng
    /\ op' = [name |-> "get_sample", on |-> "A", i |-> 0]
    /\ steps' = steps + 1
    /\ UNCHANGED <<mode, sk, vec, gen>>

RootAdd ==
    /\ mode = "root" /\ steps < MaxSamplerOps
    /\ \E r \in {L0Sampler_add(sk["A"], sk["B"])} :
         /\ sk' = [sk EXCEPT !["A"] = r.obj]
         /\ err' = r.err
         /\ vec' = IF r.err = "" THEN [vec EXCEPT !["A"] = VecAdd(@, vec["B"])]
                   ELSE vec
    /\ op' = [name |-> "add", on |-> "A", i |-> 0]
    /\ res' = None
    /\ steps' = steps + 1
    /\ UNCHANGED <<mode, gen, rng>>

NextRoot == RootUpdate \/ RootUpdateOutOfRange \/ RootGetSample \/ RootAdd

SpecRoot == InitRoot /\ [][NextRoot]_vars

---------------------------------------------------------------------------
(* The four kinds of sketch together, and the recoverers under update and  *)
(* recover calls alone.                                                    *)

Init == InitOne \/ InitSparse \/ InitFast \/ InitRoot
Next == NextOne \/ NextSparse \/ NextFast \/ NextRoot
Spec == Init /\ [][Next]_vars

\* The two samplers.
InitSamplers == InitFast \/ InitRoot
NextSamplers == NextFast \/ NextRoot
SpecSamplers == InitSamplers /\ [][NextSamplers]_vars

InitUpdates == InitOne \/ InitSparse
NextUpdates == OneUpdate \/ OneRecover \/ SparseUpdate \/ SparseRecover
SpecUpdates == InitUpdates /\ [][NextUpdates]_vars

---------------------------------------------------------------------------
(* Samplers constructed while the program runs: a behaviour starts with A  *)
(* and B of different lengths, any call may be followed by the             *)
(* construction of a new B, and code outside the sketches draws from the   *)
(* process-wide generator.                                                 *)

SeedN == {2, 3}

\* prime_getter.cache: one outcome of the oracle per argument, for the whole
\* process.
PrimeCache == [m \in SeedN \cup {n * 100 : n \in SeedN} \cup {n * n : n \in SeedN}
                     \cup {2 * CeilLog(n * n) : n \in SeedN} |-> NextPrime(m)]

FastConstructed(n, seed) ==
    FastL0Sampler_init(gen, n, seed, PrimeCache[n], PrimeCache[n],
                       PrimeCache[n * 100])
RootConstructed(n, seed) ==
    L0Sampler_init(gen, n, seed, PrimeCache[n],
                   PrimeCache[IF n > 2 * CeilLog(n * n) THEN n
                              ELSE 2 * CeilLog(n * n)],
                   PrimeCache[n * n])

InitSeeds ==
    /\ mode \in {"fast", "root"}
    /\ \E nA \in SeedN, nB \in SeedN, seedA \in Seeds, seedB \in Seeds :
         /\ nA # nB
         /\ gen \in GenFunctions
         /\ sk = [s \in Names |->
                    LET n == IF s = "A" THEN nA ELSE nB
                        seed == IF s = "A" THEN seedA ELSE seedB
                    IN  IF mode = "fast" THEN FastConstructed(n, seed)
                        ELSE RootConstructed(n, seed)]
         /\ vec = [s \in Names |->
                     IF mode = "fast" THEN GhostVec(IF s = "A" THEN nA ELSE nB)
                     ELSE ZeroVec(IF s = "A" THEN nA ELSE nB)]
         /\ rng = IF mode = "fast" THEN FastInitRng(seedB)
                  ELSE RootInitRng(nB, seedB)
    /\ op = [name |-> "init", on |-> "A", i |-> 0]
    /\ res = None
    /\ err = ""
    /\ steps = 0

\* Faulty variant of the construction: random.seed(init_seed) is left out, the
\* tag hash draws from the generator as the caller left it.
FastConstruct_Unseeded ==
    /\ mode = "fast" /\ steps < MaxSamplerOps
    /\ \E s \in {"B"}, n \in SeedN, seed \in Seeds :
         /\ sk' = [sk EXCEPT ![s] =
                      [FastConstructed(n, seed) EXCEPT !.hash_function =
                          pick_k_ind_hash_function(gen, rng, n, 4, PrimeCache[n])]]
         /\ vec' = [vec EXCEPT ![s] = GhostVec(n)]
         /\ rng' = Advance(rng, 4 + 1)
         /\ op' = [name |-> "construct", on |-> s, i |-> 0]
    /\ res' = None /\ err' = ""
    /\ steps' = steps + 1
    /\ UNCHANGED <<mode, gen>>

\* B = L0Sampler(n, init_seed=seed) of src/fast.
FastConstruct ==
    /\ mode = "fast" /\ steps < MaxSamplerOps
    /\ \E s \in {"B"}, n \in SeedN, seed \in Seeds :
         /\ sk' = [sk EXCEPT ![s] = FastConstructed(n, seed)]
         /\ vec' = [vec EXCEPT ![s] = GhostVec(n)]
         /\ rng' = FastInitRng(seed)
         /\ op' = [name |-> "construct", on |-> s, i |-> 0]
    /\ res' = None /\ err' = ""
    /\ steps' = steps + 1
    /\ UNCHANGED <<mode, gen>>

\* B = L0Sampler(n, seed) of src/L0Sampler.py.
RootConstruct ==
    /\ mode = "root" /\ steps < MaxSamplerOps
    /\ \E s \in {"B"}, n \in SeedN, seed \in Seeds :
         /\ sk' = [sk EXCEPT ![s] = RootConstructed(n, seed)]
         /\ vec' = [vec EXCEPT ![s] = ZeroVec(n)]
         /\ rng' = RootInitRng(n, seed)
         /\ op' = [name |-> "construct", on |-> s, i |-> 0]
    /\ res' = None /\ err' = ""
    /\ steps' = steps + 1
    /\ UNCHANGED <<mode, gen>>

\* A draw by the caller, such as the random.randint of test2.
AmbientDraw ==
    /\ mode \in {"fast", "root"} /\ steps < MaxSamplerOps
    /\ rng' = Advance(rng, 1)
    /\ op' = [name |-> "random", on |-> "A", i |-> 0]
    /\ res' = None /\ err' = ""
    /\ steps' = steps + 1
    /\ UNCHANGED <<mode, sk, vec, gen>>

NextSeeds == NextFast \/ NextRoot \/ FastConstruct \/ RootConstruct \/ AmbientDraw
SpecSeeds == InitSeeds /\ [][NextSeeds]_vars

---------------------------------------------------------------------------
(* Vocabulary of the properties. *)

RECURSIVE SumOver(_, _)
SumOver(f, S) ==
    IF S = {} THEN 0
    ELSE LET x == CHOOSE y \in S : TRUE
         IN  f[x] + SumOver(f, S \ {x})

\* The counters a 1-sparse cell with witness z holds for the coordinates S of
\* vector a: iota, fi and the unreduced sum behind tau.
IotaOf(a, S) == SumOver([i \in S |-> (i + 1) * a[i]], S)
FiOf(a, S) == SumOver([i \in S |-> a[i]], S)
TauSumOf(a, S, z) == SumOver([i \in S |-> a[i] * (z ^ (i + 1))], S)

\* The 1-sparse recoverer o holds the counters of vector a.
OneCountersOf(o, a) ==
    /\ o.iota = IotaOf(a, DOMAIN a)
    /\ o.fi = FiOf(a, DOMAIN a)
    /\ o.tau = PyMod(TauSumOf(a, DOMAIN a, o.z), o.p)

IsZeroVec(a) == Support(a) = {}
IsSingleton(a) == Cardinality(Support(a)) = 1
TheIndex(a) == CHOOSE i \in Support(a) : TRUE

---------------------------------------------------------------------------
(* C1 *)

\* C1: 1-sparse exactness.  Whenever recover() is called on a 1-sparse
\* recoverer whose accumulated vector has exactly one non-zero coordinate i,
\* with value v, it returns (i, v): for every n, p and witness z the
\* behaviours construct.
C1_OneSparseExact ==
    (mode = "one" /\ op.name = "recover" /\ IsSingleton(vec[op.on]))
        => res = Pair(TheIndex(vec[op.on]), vec[op.on][TheIndex(vec[op.on])])

\* A recover() of a singleton left by a multi-update stream on a coordinate
\* other than the first, under a witness other than 1.
C1_Witness ==
    /\ mode = "one" /\ op.name = "recover" /\ steps >= 3
    /\ IsSingleton(vec[op.on])
    /\ TheIndex(vec[op.on]) > 0
    /\ sk[op.on].z > 1
    /\ res.kind = "pair"

---------------------------------------------------------------------------
(* C6 *)

\* C6: a zero vector yields Fail.  When the accumulated vector is zero on
\* every coordinate, recover() of the 1-sparse recoverer returns None,
\* get_sample() of the sampler returns None and get_samples() returns the
\* empty dict.
C6_ZeroVectorFails ==
    /\ (mode = "one" /\ op.name = "recover" /\ IsZeroVec(vec[op.on]))
          => res = None
    /\ (mode = "fast" /\ op.name = "get_sample" /\ IsZeroVec(vec["A"]))
          => res = None
    /\ (mode = "fast" /\ op.name = "get_samples" /\ IsZeroVec(vec["A"]))
          => (res.kind = "dict" /\ DOMAIN res.map = {})

\* get_samples() on a sampler whose table holds cells, all cancelled.
C6_Witness ==
    /\ mode = "fast" /\ op.name = "get_samples"
    /\ IsZeroVec(vec["A"])
    /\ DOMAIN sk["A"].recoverers_values # {}
    /\ res.kind = "dict" /\ DOMAIN res.map = {}

---------------------------------------------------------------------------
(* C7 *)

ReadCalls == {"recover", "get_samples"}

\* C7: recover is read-only.  A recover() of a 1-sparse or s-sparse recoverer
\* and a get_samples() of the sampler leave every sketch as it was, and a
\* second such call right after the first, on the same sketch, returns what
\* the first returned.
C7_RecoverReadOnly ==
    [][(mode \in {"one", "sparse", "fast"} /\ op'.name \in ReadCalls)
          => /\ sk' = sk
             /\ (op.name = op'.name /\ op.on = op'.on) => res' = res]_vars

\* A recover() of a non-empty recoverer, after other calls, that returns a
\* value.
C7_Witness ==
    /\ mode \in {"one", "sparse"} /\ op.name = "recover" /\ steps >= 3
    /\ res.kind \in {"pair", "dict"}
    /\ ~IsZeroVec(vec[op.on])

---------------------------------------------------------------------------
(* C8 *)

\* The coordinates a cell of the s-sparse recoverer receives.
CellCoords(o, c) == {i \in 0..(o.n - 1) : h(o.hash_function[c[1]], i) = c[2]}

CountersMatch ==
    /\ mode = "one" =>
         \A s \in Names :
            LET o == sk[s]
                S == DOMAIN vec[s]
            IN  /\ o.iota = IotaOf(vec[s], S)
                /\ o.fi = FiOf(vec[s], S)
                /\ o.tau = PyMod(TauSumOf(vec[s], S, o.z), o.p)
                /\ 0 <= o.tau /\ o.tau <= o.p - 1
    /\ mode = "sparse" =>
         \A s \in Names : \A c \in DOMAIN sk[s].R :
            LET r == sk[s].R[c]
                S == CellCoords(sk[s], c)
            IN  /\ r.iota = IotaOf(vec[s], S)
                /\ r.fi = FiOf(vec[s], S)
                /\ r.tau = PyMod(TauSumOf(vec[s], S, r.z), sk[s].p)
                /\ 0 <= r.tau /\ r.tau <= sk[s].p - 1

ParametersKept ==
    /\ mode = "one" =>
         \A s \in Names :
            sk'[s].z = sk[s].z /\ sk'[s].p = sk[s].p /\ sk'[s].n = sk[s].n
    /\ mode = "sparse" =>
         \A s \in Names :
            /\ sk'[s].p = sk[s].p /\ sk'[s].n = sk[s].n
            /\ sk'[s].hash_function = sk[s].hash_function
            /\ \A c \in DOMAIN sk[s].R : sk'[s].R[c].z = sk[s].R[c].z

\* C8: the counter invariant.  In every state update calls reach, each
\* 1-sparse cell holds iota = sum (i+1)*a[i], fi = sum a[i] and
\* tau = (sum a[i]*z^(i+1)) mod p within [0, p-1], over the coordinates a of
\* the accumulated vector the cell receives; and no call changes z, p or n.
C8_CounterInvariant == []CountersMatch /\ [][ParametersKept]_vars

\* A recoverer whose updates include a negative one and leave tau non-zero.
C8_Witness ==
    /\ mode = "one" /\ op.name = "update" /\ steps >= 2
    /\ \E i \in DOMAIN vec[op.on] : vec[op.on][i] < 0
    /\ sk[op.on].tau # 0 /\ sk[op.on].z > 1

---------------------------------------------------------------------------
(* C2 *)

\* The sampler as constructed: no cell, no row parameters.
FastFresh(o) ==
    [o EXCEPT !.recoverers_values = [c \in {} |-> 0],
              !.values_order = <<>>,
              !.recoverers_column_hash_params = [c \in {} |-> 0]]

\* The sampler o after update(i, a[i]) for each i of S.
RECURSIVE FastSketchFrom(_, _, _, _)
FastSketchFrom(o, g, a, S) ==
    IF S = {} THEN o
    ELSE LET i == CHOOSE j \in S : TRUE
         IN  FastSketchFrom(FastL0Sampler_update(o, g, Seeded(0), i, a[i]).obj,
                            g, a, S \ {i})

\* A same-seed sampler that received a stream accumulating to a.
FastSketchOf(o, g, a) == FastSketchFrom(FastFresh(o), g, a, Support(a))

\* (iota, fi, tau) of cell c, an absent cell counting as all-zero.
FastCounters(o, c) ==
    IF c \in DOMAIN o.recoverers_values
    THEN <<o.recoverers_values[c].iota, o.recoverers_values[c].fi,
           o.recoverers_values[c].tau>>
    ELSE <<0, 0, 0>>
FastSameCounters(o1, o2) ==
    \A c \in DOMAIN o1.recoverers_values \cup DOMAIN o2.recoverers_values :
        FastCounters(o1, c) = FastCounters(o2, c)

\* C2: linearity of add.  For samplers A and B of the same n and seed holding
\* vectors a1 and a2, a successful A.add(B) leaves A with, in every cell, the
\* counters of a same-seed sampler that received a1 + a2 (an absent cell
\* counting as all-zero) and with the same get_samples(), and leaves B as it
\* was; likewise a successful add of 1-sparse recoverers leaves A with the
\* counters of a1 + a2 and B as it was.
C2_AddLinear ==
    [][/\ (mode = "fast" /\ op'.name = "add" /\ err' = "")
            => LET ref == FastSketchOf(sk["A"], gen, VecAdd(vec["A"], vec["B"]))
               IN  /\ FastSameCounters(sk'["A"], ref)
                   /\ FastL0Sampler_get_samples(sk'["A"])
                         = FastL0Sampler_get_samples(ref)
                   /\ sk'["B"] = sk["B"]
       /\ (mode = "one" /\ op'.name = "add" /\ err' = "")
            => /\ OneCountersOf(sk'["A"], VecAdd(vec["A"], vec["B"]))
               /\ sk'["B"] = sk["B"]]_vars

\* An add of a non-empty B into an A that held other coordinates.
C2_Witness ==
    /\ mode = "fast" /\ op.name = "add" /\ err = ""
    /\ ~IsZeroVec(vec["B"])
    /\ Support(vec["A"]) # Support(vec["B"])
    /\ DOMAIN sk["A"].recoverers_values # DOMAIN sk["B"].recoverers_values

---------------------------------------------------------------------------
(* C3 *)

\* Cell r1 minus cell r2 gives cell r: iota and fi exactly, tau reduced.
CellDifference(r, r1, r2, p) ==
    /\ r.iota = r1.iota - r2.iota
    /\ r.fi = r1.fi - r2.fi
    /\ r.tau = PyMod(r1.tau - r2.tau, p)
    /\ 0 <= r.tau /\ r.tau <= p - 1

SubtractIsDifference ==
    /\ mode = "one" => OneCountersOf(sk'["A"], VecSub(vec["A"], vec["B"]))
    /\ mode = "sparse" =>
          \A c \in DOMAIN sk["A"].R :
             CellDifference(sk'["A"].R[c], sk["A"].R[c], sk["B"].R[c], sk["A"].p)
    /\ mode = "fast" =>
          FastSameCounters(sk'["A"],
              FastSketchOf(sk["A"], gen, VecSub(vec["A"], vec["B"])))

SubtractUndoesAdd ==
    /\ mode = "one" => OneSparseRecoverer_subtract(sk'["A"], sk'["B"]) = sk["A"]
    /\ mode = "sparse" =>
          SparseRecoverer_subtract(sk'["A"], sk'["B"]) = [obj |-> sk["A"], err |-> ""]
    /\ mode = "fast" =>
          FastSameCounters(FastL0Sampler_subtract(sk'["A"], gen, sk'["B"]), sk["A"])

\* C3: linearity of subtract.  A successful A.subtract(B) leaves every cell of
\* A with the counters of a sketch of a1 - a2: iota and fi subtracted exactly,
\* tau the difference reduced into [0, p-1]; and subtracting B from A right
\* after a successful A.add(B) gives back A's counters.
C3_SubtractLinear ==
    [][/\ (mode \in {"one", "sparse", "fast"} /\ op'.name = "subtract" /\ err' = "")
            => SubtractIsDifference
       /\ (mode \in {"one", "sparse", "fast"} /\ op'.name = "add" /\ err' = "")
            => SubtractUndoesAdd]_vars

\* A subtract that leaves a cell with a negative fi and a tau reduced into
\* [1, p-1].
C3_Witness ==
    /\ mode = "fast" /\ op.name = "subtract" /\ err = ""
    /\ \E c \in DOMAIN sk["A"].recoverers_values :
          /\ sk["A"].recoverers_values[c].fi < 0
          /\ sk["A"].recoverers_values[c].tau > 0

---------------------------------------------------------------------------
(* C4 *)

\* Every update so far had its index in [0, n-1].
FastInRangeOnly ==
    \A s \in Names : \A i \in OutOfRange(sk[s].n) : vec[s][i] = 0

\* The non-zero coordinates of a that updates route to cell c.
FastCellCoords(o, g, c, a) ==
    {j \in Support(a) :
        c[1] < MaxLevel(o, j) /\ FastColumn(o, g, c[1], c[2], j) = c[3]}

\* The cell get_samples read entry i from: the last passing cell with that
\* index (none when no passing cell has it).
FastProducers(o, i) ==
    LET cs == {c \in FastPassing(o) :
                 PyFloorDiv(o.recoverers_values[c].iota, o.recoverers_values[c].fi) - 1 = i}
    IN  {c \in cs : \A d \in cs : FastRank(o, d) <= FastRank(o, c)}

\* The entries (i, v) the last call returned.
Returned ==
    IF res.kind = "pair" THEN {<<res.idx, res.val>>}
    ELSE IF res.kind = "dict" THEN {<<i, res.map[i]>> : i \in DOMAIN res.map}
    ELSE {}

SampleCalls == {"get_sample", "get_samples"}

\* C4 as stated: after in-range updates and compatible add / subtract, every
\* (i, v) that get_sample() or get_samples() returns has v # 0 and v = a[i].
C4_SupportContainment ==
    (mode = "fast" /\ op.name \in SampleCalls /\ FastInRangeOnly)
        => \A e \in Returned :
              /\ e[2] # 0
              /\ e[1] \in 0..(sk["A"].n - 1)
              /\ e[2] = vec["A"][e[1]]

\* C4, amended: after in-range updates and compatible add / subtract, every
\* (i, v) that get_sample() or get_samples() returns has v # 0, and has
\* v = a[i] when the cell it was read from holds exactly one non-zero
\* coordinate of a.
C4_SupportContainment_Amended ==
    (mode = "fast" /\ op.name \in SampleCalls /\ FastInRangeOnly)
        => \A e \in Returned :
              /\ e[2] # 0
              /\ \E c \in FastProducers(sk["A"], e[1]) :
                    /\ sk["A"].recoverers_values[c].fi = e[2]
                    /\ Cardinality(FastCellCoords(sk["A"], gen, c, vec["A"])) = 1
                         => /\ e[1] \in 0..(sk["A"].n - 1)
                            /\ e[2] = vec["A"][e[1]]

\* A get_samples() that returns two coordinates.
C4_Witness ==
    /\ mode = "fast" /\ op.name = "get_samples" /\ FastInRangeOnly
    /\ Cardinality(Returned) = 2
    /\ \A e \in Returned : e[2] = vec["A"][e[1]]

---------------------------------------------------------------------------
(* C5 *)

\* C5 as stated: with A and B of the same n and seed, A holding nothing and B
\* a single non-zero coordinate (i, v), A.add(B) raises nothing and
\* A.get_sample() then returns (i, v).
C5_AddThenSample ==
    [][(mode = "root" /\ op'.name = "add"
          /\ IsZeroVec(vec["A"]) /\ IsSingleton(vec["B"]))
          => /\ err' = ""
             /\ LET r == L0Sampler_get_sample(sk'["A"], gen, rng')
                    i == TheIndex(vec["B"])
                IN  r.err = "" /\ r.res = Pair(i, vec["B"][i])]_vars

---------------------------------------------------------------------------
(* C9 *)

CombineCalls == {"add", "subtract"}

\* C9 as stated: when add or subtract raises, every counter of the receiving
\* sketch has its value from before the call.
C9_AllOrNothing ==
    [][(mode \in {"sparse", "fast", "root"} /\ op'.name \in CombineCalls
          /\ err' # "")
          => sk'["A"] = sk["A"]]_vars

---------------------------------------------------------------------------
(* C10 *)

\* C10 as stated: update(i, Delta) of a sampler with i < 0 or i >= n raises
\* ValueError and changes no cell.
C10_OutOfRangeRejected ==
    [][(mode \in {"fast", "root"} /\ op'.name = "update"
          /\ ~check_in_range(0, sk[op'.on].n - 1, op'.i))
          => (err' = "ValueError" /\ sk' = sk)]_vars

---------------------------------------------------------------------------
(* C11 *)

\* What recover() of an s-sparse recoverer may hand back: the Fail marker or
\* a non-empty mapping.
IsFailOrMapping(r) == r = None \/ (r.kind = "dict" /\ DOMAIN r.map # {})

\* C11 as stated: in every reachable state of an s-sparse recoverer, recover()
\* raises nothing and returns the Fail marker or a non-empty mapping, and the
\* recover() of each of its cells yields a pair (i, v) or the absence marker.
C11_FailureIsValue ==
    /\ mode = "root" =>
         \A s \in Names : \A l \in DOMAIN sk[s].recoverers :
            LET o == sk[s].recoverers[l]
                r == RootSparseRecoverer_recover(o)
            IN  /\ r.err = ""
                /\ IsFailOrMapping(r.res)
                /\ \A c \in DOMAIN o.R :
                      RootOne_recover(o.R[c]).kind \in {"pair", "None"}
    /\ (mode = "root" /\ op.name = "get_sample") => err = ""
    /\ (mode = "sparse" /\ op.name = "recover") =>
         (err = "" /\ IsFailOrMapping(res))

---------------------------------------------------------------------------
(* C12 *)

SameSeed(a, b) == a.n = b.n /\ a.init_seed = b.init_seed

\* C12: seed determinism.  Whenever A and B were constructed with the same n
\* and seed, whatever calls, constructions and draws came between and after,
\* they hold the same tag-hash coefficients, the same column-hash parameters
\* for every (level, row) both have and the same witness z in every cell both
\* have; for the sampler of src/L0Sampler.py, the same row hashes and the
\* same z in every cell of every level.
C12_SeedDeterminism ==
    /\ (mode = "fast" /\ SameSeed(sk["A"], sk["B"])) =>
         /\ sk["A"].hash_function = sk["B"].hash_function
         /\ \A r \in DOMAIN sk["A"].recoverers_column_hash_params
                       \cap DOMAIN sk["B"].recoverers_column_hash_params :
               sk["A"].recoverers_column_hash_params[r]
                  = sk["B"].recoverers_column_hash_params[r]
         /\ \A c \in DOMAIN sk["A"].recoverers_values
                       \cap DOMAIN sk["B"].recoverers_values :
               sk["A"].recoverers_values[c].z = sk["B"].recoverers_values[c].z
    /\ (mode = "root" /\ SameSeed(sk["A"], sk["B"])) =>
         /\ sk["A"].hash_function = sk["B"].hash_function
         /\ \A l \in DOMAIN sk["A"].recoverers :
               /\ sk["A"].recoverers[l].hash_function
                     = sk["B"].recoverers[l].hash_function
               /\ \A c \in DOMAIN sk["A"].recoverers[l].R :
                     sk["A"].recoverers[l].R[c].z = sk["B"].recoverers[l].R[c].z

\* A and B of the same n and seed, B constructed after the behaviour began,
\* each updated since and holding a cell the other holds too.
C12_Witness ==
    /\ mode = "fast" /\ SameSeed(sk["A"], sk["B"])
    /\ op.name = "update"
    /\ ~IsZeroVec(vec["A"]) /\ ~IsZeroVec(vec["B"])
    /\ DOMAIN sk["A"].recoverers_values \cap DOMAIN sk["B"].recoverers_values # {}

---------------------------------------------------------------------------
(* C13 *)

\* Every call so far was an insertion of MaxDelta into A, but the last.
OnlyInsertions ==
    /\ \A i \in DOMAIN vec["A"] : vec["A"][i] >= 0
    /\ SumOver(vec["A"], DOMAIN vec["A"]) = (steps - 1) * MaxDelta

\* C13 as stated: after strictly positive insertions into a freshly
\* constructed sampler, and no deletion, get_sample() raises nothing and
\* returns a pair (i, v), not Fail.
C13_SamplingSucceeds ==
    (/\ mode = "root" /\ op.name = "get_sample" /\ steps >= 2
     /\ OnlyInsertions)
        => (err = "" /\ res.kind = "pair")

---------------------------------------------------------------------------
(* C14 *)

\* C14: hash range.  For every hash function h drawn by
\* pick_k_ind_hash_function(n, w, k) with w >= 1 and k >= 1, whatever the
\* coefficients drawn, and every x >= 0, below n or not, 0 <= h(x) < w.
C14_HashRange ==
    (mode = "hash" /\ op.name = "h")
        => (res.kind = "int" /\ 0 <= res.val /\ res.val < sk[op.on].w)

\* h(x) = w - 1 at an x beyond n and beyond p, for a hash of degree above 0
\* with w > 1 and a coefficient equal to p.
C14_Witness ==
    /\ mode = "hash" /\ op.name = "h"
    /\ op.i >= Cardinality(DOMAIN vec[op.on]) /\ op.i > sk[op.on].p
    /\ sk[op.on].k >= 2 /\ sk[op.on].w > 1
    /\ \E j \in DOMAIN sk[op.on].a : sk[op.on].a[j] = sk[op.on].p
    /\ res = PyInt(sk[op.on].w - 1)

---------------------------------------------------------------------------
(* C15 *)

AllReturned == \A s \in Names : sk[s].pc = "done"

\* C15: prime oracle monotonicity.  For every n >= 2 and every outcome of the
\* witnesses drawn, get_next_prime(n) returns, and the p it returns is above
\* n and odd; a later call with the same n returns the same p.
C15_PrimeMonotone ==
    /\ [](mode = "prime" =>
            \A s \in Names :
               sk[s].pc = "done" => (sk[s].ret > sk[s].arg /\ sk[s].ret % 2 = 1))
    /\ [](mode = "prime" /\ AllReturned => sk["A"].ret = sk["B"].ret)
    /\ <>(mode = "prime" => AllReturned)

\* A call that returned after is_prime rejected two candidates or more, and
\* after the witnesses of the last candidate were inconclusive.
C15_Witness ==
    /\ mode = "prime" /\ AllReturned
    /\ sk["A"].ret >= FirstCandidate(sk["A"].arg) + 4
    /\ sk["A"].tested >= 2

---------------------------------------------------------------------------
(* C20 *)

\* C20 as stated: is_prime(n) returns True for an odd n > 3 only after at
\* least ceil(log2 n) witnesses were drawn and found inconclusive.
C20_WitnessCount ==
    (mode = "prime" /\ sk["A"].pc = "done" /\ sk["A"].ret > 3)
        => sk["A"].tested >= CeilLog2(sk["A"].ret)

---------------------------------------------------------------------------
(* C16 *)

\* C16 as stated: A.add(B) and A.subtract(B) of samplers raise the
\* incompatibility error, before any cell of A or B is created or modified,
\* when n or the seed differs, and raise nothing when both are equal.
C16_CompatibilityChecked ==
    [][(mode \in {"fast", "root"} /\ op'.name \in CombineCalls)
          => IF SameSeed(sk["A"], sk["B"])
             THEN err' = ""
             ELSE err' = "ValueError" /\ sk' = sk]_vars

---------------------------------------------------------------------------
(* C17 *)

\* Level l of the fast sampler: the cells it holds at that level.
FastLevel(o, l) ==
    [c \in {d \in DOMAIN o.recoverers_values : d[1] = l} |->
        o.recoverers_values[c]]

\* The call just made changed level l of its receiver.
LevelModified(l) ==
    IF mode = "fast"
    THEN FastLevel(sk'[op'.on], l) # FastLevel(sk[op'.on], l)
    ELSE sk'[op'.on].recoverers[l] # sk[op'.on].recoverers[l]

TagOf(o, i) == h(o.hash_function, i)

\* An update(i, Delta) with i in [0, n-1] that returned.
InRangeUpdate ==
    /\ mode \in {"fast", "root"} /\ op'.name = "update" /\ err' = ""
    /\ check_in_range(0, sk[op'.on].n - 1, op'.i)

\* C17 as stated: update(i, Delta) of a sampler modifies level l exactly when
\* (n^c >> l) > H(i), c = 1, and leaves every other level unchanged.
C17_LevelFilter ==
    [][InRangeUpdate
          => \A l \in 0..(sk[op'.on].levels - 1) :
                LevelModified(l)
                   <=> ShiftRight(sk[op'.on].n ^ sk[op'.on].n_hash_power, l)
                          > TagOf(sk[op'.on], op'.i)]_vars

\* The test of each sampler: n^c >> l > H(i) for that of src/L0Sampler.py,
\* (n^c - 1) >> l >= H(i) for that of src/fast.
LevelTest(o, l, i) ==
    IF mode = "fast"
    THEN ShiftRight(o.n ^ o.n_hash_power - 1, l) >= TagOf(o, i)
    ELSE ShiftRight(o.n ^ o.n_hash_power, l) > TagOf(o, i)

\* C17, amended: update(i, Delta) modifies level l exactly when the sampler's
\* test holds, (n^c >> l) > H(i) for the sampler of src/L0Sampler.py and
\* ((n^c - 1) >> l) >= H(i) for that of src/fast, and leaves every other
\* level unchanged.
C17_LevelFilter_Amended ==
    [][InRangeUpdate
          => \A l \in 0..(sk[op'.on].levels - 1) :
                LevelModified(l) <=> LevelTest(sk[op'.on], l, op'.i)]_vars

\* An update of the fast sampler with a tag equal to n >> l at a level l it
\* modified, and a level it left unchanged.
C17_Witness ==
    /\ mode = "fast" /\ op.name = "update" /\ steps = 1
    /\ check_in_range(0, sk[op.on].n - 1, op.i)
    /\ \E l \in 1..(sk[op.on].levels - 1) :
          /\ ShiftRight(sk[op.on].n, l) = TagOf(sk[op.on], op.i)
          /\ DOMAIN FastLevel(sk[op.on], l) # {}
    /\ \E l \in 1..(sk[op.on].levels - 1) : DOMAIN FastLevel(sk[op.on], l) = {}

---------------------------------------------------------------------------
(* C18 *)

\* The cells of the s-sparse recoverer o whose counters pass the 1-sparse
\* test, and the index each stands for.
PassingCells(o) ==
    {c \in DOMAIN o.R :
        LET r == o.R[c]
        IN  /\ r.fi # 0
            /\ PyMod(r.iota, r.fi) = 0
            /\ PyFloorDiv(r.iota, r.fi) > 0
            /\ r.tau = PyMod(r.fi * (r.z ^ PyFloorDiv(r.iota, r.fi)), o.p)}
IndexOfCell(o, c) == PyFloorDiv(o.R[c].iota, o.R[c].fi) - 1

---------------------------------------------------------------------------
(* C19 *)

\* Grid o became o2 by an update(i, Delta) of an s-sparse recoverer over the
\* prime p: in each row the cell at the column of i took the three
\* assignments and kept z, it alone changed, and the row hashes stayed.
GridUpdated(o, o2, i, Delta, p) ==
    /\ DOMAIN o2.R = DOMAIN o.R
    /\ \A c \in DOMAIN o.R :
          IF c[2] = h(o.hash_function[c[1]], i)
          THEN /\ o2.R[c].iota = o.R[c].iota + (i + 1) * Delta
               /\ o2.R[c].fi = o.R[c].fi + Delta
               /\ o2.R[c].tau
                     = PyMod(o.R[c].tau + Delta * (o.R[c].z ^ (i + 1)), p)
               /\ o2.R[c].z = o.R[c].z
          ELSE o2.R[c] = o.R[c]
    /\ \A l \in 0..(o.rows - 1) :
          Cardinality({c \in DOMAIN o.R : c[1] = l /\ o2.R[c] # o.R[c]}) = 1
    /\ o2.hash_function = o.hash_function
    /\ o2.rows = o.rows /\ o2.columns = o.columns

\* The Delta of the update just made, read off the vector.
DeltaMade == vec'[op'.on][op'.i] - vec[op'.on][op'.i]

\* C19: the frame of the s-sparse update.  update(i, Delta) changes, in each
\* row, exactly the cell at column h_l(i), by iota += (i+1)*Delta,
\* fi += Delta, tau = (tau + Delta*z^(i+1)) mod p, and leaves every other
\* cell, every z, the prime p and every row hash as they were: for the
\* recoverer of src/plain_v2, and for each level's recoverer that an update
\* of the sampler of src/L0Sampler.py reaches, the first level among them.
C19_UpdateFrame ==
    [][/\ (mode = "sparse" /\ op'.name = "update")
            => /\ GridUpdated(sk[op'.on], sk'[op'.on], op'.i, DeltaMade,
                              sk[op'.on].p)
               /\ sk'[op'.on].p = sk[op'.on].p
       /\ (mode = "root" /\ op'.name = "update" /\ err' = "")
            => /\ \A l \in DOMAIN sk[op'.on].recoverers :
                     LET o == sk[op'.on].recoverers[l]
                         o2 == sk'[op'.on].recoverers[l]
                     IN  \/ o2 = o
                         \/ /\ GridUpdated(o, o2, op'.i, DeltaMade,
                                           o.R[<<0, 0>>].p)
                            /\ \A c \in DOMAIN o.R : o2.R[c].p = o.R[c].p
               /\ sk'[op'.on].recoverers[0] # sk[op'.on].recoverers[0]]_vars

\* An update with a negative Delta at an index above 0 that left the cells
\* of the two rows it reached with tau above 0, other cells holding counts.
C19_Witness ==
    /\ mode = "sparse" /\ op.name = "update" /\ op.i > 0 /\ steps >= 2
    /\ vec[op.on][op.i] < 0
    /\ \A l \in 0..(sk[op.on].rows - 1) :
          sk[op.on].R[<<l, h(sk[op.on].hash_function[l], op.i)>>].tau > 0
    /\ \E c \in DOMAIN sk[op.on].R :
          /\ c[2] # h(sk[op.on].hash_function[c[1]], op.i)
          /\ sk[op.on].R[c].fi # 0

---------------------------------------------------------------------------
(* C21: the oracle has no false negatives.                                 *)

\* Primality by trial division.
IsPrimeNumber(n) == n > 1 /\ \A q \in 2..(n - 1) : n % q # 0
\* The smallest odd prime greater than n.
RECURSIVE OddPrimeFrom(_)
OddPrimeFrom(m) == IF m % 2 = 1 /\ IsPrimeNumber(m) THEN m ELSE OddPrimeFrom(m + 1)
SmallestOddPrimeAfter(n) == OddPrimeFrom(n + 1)

\* get_next_prime gives up a candidate: is_prime has returned False.
CandidateRejected == mode = "prime" /\ sk'["A"].p # sk["A"].p

\* C21: whatever witnesses are drawn, is_prime returns False only for 1 and
\* for composite numbers, and get_next_prime(n) never returns more than the
\* smallest odd prime greater than n.
C21_NoFalseNegatives ==
    /\ [][CandidateRejected => ~IsPrimeNumber(sk["A"].p)]_vars
    /\ [](mode = "prime" => \A s \in Names :
             sk[s].pc = "done" => sk[s].ret <= SmallestOddPrimeAfter(sk[s].arg))

\* A call that gave up a composite, tested a prime against a witness and
\* returned it.
C21_Witness ==
    /\ mode = "prime" /\ sk["A"].pc = "done"
    /\ sk["A"].tested > 0
    /\ IsPrimeNumber(sk["A"].ret)
    /\ sk["A"].ret > FirstCandidate(sk["A"].arg)

---------------------------------------------------------------------------
(* C22: the ranges of the coefficients of a hash function.                 *)

\* C22: every hash function drawn has its k coefficients in [0, p-1] and the
\* coefficient of x^(k-1), a[0], in [1, p-1].
C22_CoefficientRanges ==
    mode = "hash" =>
      \A s \in Names :
        /\ \A j \in DOMAIN sk[s].a : sk[s].a[j] \in 0..(sk[s].p - 1)
        /\ sk[s].a[0] \in 1..(sk[s].p - 1)

---------------------------------------------------------------------------
(* C23: the range of a recovered index.                                    *)

\* The calls that return recovered indices, after in-range updates only.
IndexReturned ==
    \/ mode \in {"one", "sparse"} /\ op.name = "recover"
    \/ mode = "fast" /\ op.name = "get_samples" /\ FastInRangeOnly

\* C23 as stated: every index returned by recover() of the 1-sparse and the
\* s-sparse recoverer and by get_samples(), after updates with indices in
\* [0, n-1], is in [0, n-1].
C23_IndexInRange ==
    IndexReturned => \A e \in Returned : e[1] \in 0..(sk[op.on].n - 1)

\* The cells of the sketch o a returned index idx was computed from, each
\* with the non-zero coordinates of a that it holds.
YieldingCells(o, a, idx) ==
    IF mode = "one"
    THEN {Support(a)}
    ELSE IF mode = "sparse"
    THEN {CellCoords(o, c) \cap Support(a) :
             c \in {d \in PassingCells(o) : IndexOfCell(o, d) = idx}}
    ELSE {FastCellCoords(o, gen, c, a) :
             c \in {d \in FastPassing(o) :
                      PyFloorDiv(o.recoverers_values[d].iota,
                                 o.recoverers_values[d].fi) - 1 = idx}}

\* C23, amended: every index returned is at least 0, comes from a cell that
\* passes the 1-sparse test, and is in [0, n-1] whenever such a cell holds
\* exactly one non-zero coordinate of the vector.
C23_IndexInRange_Amended ==
    IndexReturned =>
      \A e \in Returned :
        /\ e[1] >= 0
        /\ YieldingCells(sk[op.on], vec[op.on], e[1]) # {}
        /\ \A S \in YieldingCells(sk[op.on], vec[op.on], e[1]) :
              Cardinality(S) = 1 => (S = {e[1]} /\ e[1] <= sk[op.on].n - 1)

\* An s-sparse recover() that returns the last index of the vector, read
\* from a cell that holds this coordinate alone, after a deletion.
C23_Witness ==
    /\ mode = "sparse" /\ op.name = "recover" /\ res.kind = "dict"
    /\ \E e \in Returned :
          /\ e[1] = sk[op.on].n - 1 /\ e[2] < 0
          /\ {e[1]} \in YieldingCells(sk[op.on], vec[op.on], e[1])

---------------------------------------------------------------------------
(* C24: the seed keys of the witnesses.                                    *)

\* C24 as stated: two different cells (level, row, column) of a sampler's
\* table, with level < levels, never derive their witness z from the same
\* seed key.
C24_DistinctSeedKeys ==
    mode = "fast" =>
      \A s \in Names :
        \A c, d \in FastVisited(sk[s]) :
           c # d => ZSeedKey(sk[s], c[1], c[2], c[3])
                       # ZSeedKey(sk[s], d[1], d[2], d[3])

---------------------------------------------------------------------------
(* C25: the process-wide generator outside construction.                   *)

RngFreeCalls == {"update", "add", "subtract", "get_samples"}

\* C25 as stated: update, add, subtract and get_samples of a sampler leave
\* the state of the process-wide generator as it was.
C25_RngUntouched ==
    [][(mode = "fast" /\ op'.name \in RngFreeCalls) => rng' = rng]_vars

---------------------------------------------------------------------------
(* C26: the table of the seed-derived sampler against the grid allocated   *)
(* in full.                                                                *)

\* The cells of the full grid: levels x rows x columns.
EagerCells(o) ==
    (0..(o.levels - 1)) \X (0..(o.recoverers_rows - 1))
        \X (0..(o.recoverers_columns - 1))

\* The non-zero coordinates of a that cell c of the full grid receives: those
\* active at its level that the hash of its row, derived from the seed, sends
\* to its column.
EagerCoords(o, g, a, c) ==
    {j \in Support(a) :
        /\ c[1] < MaxLevel(o, j)
        /\ get_column(o, get_recoverers_column_hash_params(o, g, c[1], c[2]), j)
              = c[3]}

\* Cell c of the full grid of a sampler with the parameters and the seed of
\* o that holds vector a: the z of the seed, and the counters of its
\* coordinates.
EagerCell(o, g, a, c) ==
    LET z == get_one_sp_rec_z(o, g, c[1], c[2], c[3])
        S == EagerCoords(o, g, a, c)
    IN  Cell(z, IotaOf(a, S), FiOf(a, S),
             PyMod(TauSumOf(a, S, z), o.one_sp_rec_p))

\* The cells of the full grid that receive a non-zero coordinate of a.
EagerTouched(o, g, a) ==
    UNION {{<<l, r, get_column(o, get_recoverers_column_hash_params(o, g, l, r), j)>> :
               l \in 0..(MaxLevel(o, j) - 1), r \in 0..(o.recoverers_rows - 1)} :
           j \in Support(a)}

\* The full grid after a stream that accumulates to a: the cells of touched
\* hold the counters of their coordinates, the others are as allocated.
EagerGrid(o, g, a, touched) ==
    [c \in EagerCells(o) |->
        IF c \in touched THEN EagerCell(o, g, a, c)
        ELSE Cell(get_one_sp_rec_z(o, g, c[1], c[2], c[3]), 0, 0, 0)]

\* Recovery over the full grid, level by level, row by row, column by
\* column.
EagerSamples(o, grid) ==
    LET passing == {c \in DOMAIN grid : CellPasses(grid[c], o.one_sp_rec_p)}
    IN  MergeCells(grid, passing, [c \in passing |-> FastRank(o, c)])

\* On the cells given, the table of o is the grid with all-zero cells left
\* out.
TableIsGrid(o, grid, cells) ==
    \A c \in cells :
       IF c \in DOMAIN o.recoverers_values
       THEN o.recoverers_values[c] = grid[c]
       ELSE grid[c].iota = 0 /\ grid[c].fi = 0 /\ grid[c].tau = 0

\* C26: in every state that update, add and subtract reach, each cell of the
\* table holds the (z, iota, fi, tau) of its cell of the full grid of the
\* same seed, each cell absent from the table is all-zero in the full grid,
\* and get_samples() returns what recovery over the full grid returns.  The
\* cells compared in every state are those the table holds and those the
\* stream touches (the others are absent from the table and as allocated in
\* the grid); at a get_samples() call they are all the cells of the grid.
C26_LazyEqualsEager ==
    mode = "fast" =>
      \A s \in Names :
        \E touched \in {EagerTouched(sk[s], gen, vec[s])} :
        \E grid \in {EagerGrid(sk[s], gen, vec[s], touched)} :
          /\ DOMAIN sk[s].recoverers_values \subseteq DOMAIN grid
          /\ TableIsGrid(sk[s], grid, DOMAIN sk[s].recoverers_values \cup touched)
          /\ (s = op.on /\ op.name = "get_samples")
                => /\ TableIsGrid(sk[s], grid, DOMAIN grid)
                   /\ res = Dict(EagerSamples(sk[s], grid))

\* A get_samples() that returns entries from a table with a cell that holds
\* two coordinates of the vector.
C26_Witness ==
    /\ mode = "fast" /\ op.name = "get_samples"
    /\ DOMAIN res.map # {}
    /\ \E c \in DOMAIN sk["A"].recoverers_values :
          Cardinality(EagerCoords(sk["A"], gen, vec["A"], c)) = 2

---------------------------------------------------------------------------
(* C27: recovery without collisions.                                       *)

\* In no row of o do two non-zero coordinates of a share a column.
CollisionFree(o, a) ==
    \A r \in 0..(o.rows - 1) :
       \A i, j \in Support(a) :
          i # j => h(o.hash_function[r], i) # h(o.hash_function[r], j)

====
